---- MODULE Spec2Model ----
(***************************************************************************)
(* Transaction manager of fsql-lite (transaction.go) and the Tx helpers of *)
(* filters.go, as a state machine.                                         *)
(*                                                                         *)
(* Texts are sequences of one-character strings, so that strings.ToLower   *)
(* and strings.Contains are computed character by character.  A duration   *)
(* is a number of microseconds.  The pgx driver is the environment: a      *)
(* pgx.Tx is Active until its Commit or Rollback and answers ErrTxClosed   *)
(* afterwards; Begin, Commit and Rollback of a live transaction succeed,   *)
(* and a failure inside an attempt (a failed statement, a deadline hit     *)
(* during a statement) is an error returned by the body fn.  The pool DB   *)
(* is initialised.  The context is observed by this code only in the       *)
(* select of the retry backoff, so it is there that a cancellation acts.   *)
(***************************************************************************)
EXTENDS Integers, Sequences, FiniteSets, TLC

VARIABLES
    pc,          \* position of the caller: idle, manual, body, backoff, returned, panicked
    call,        \* entry point in progress: none, BeginTx, WithTx, WithTxRetry
    txs,         \* the pgx transactions begun so far, in order: status and pending writes
    visible,     \* rows committed to the database
    hTx,         \* field tx of the current *Tx handle: index into txs, 0 is nil
    maxRetries,  \* opts.MaxRetries of the call
    attempt,     \* loop variable of WithTxRetryOptions
    err,         \* variable err of WithTxRetryOptions
    result,      \* error returned by the call
    bodyCalls,   \* number of invocations of fn
    log,         \* what each finished attempt returned (attemptErr), in order
    backoff,     \* duration of the backoff being waited, microseconds
    waits,       \* number of backoff waits started
    slept,       \* number of backoff waits that ran to their end
    ctxDone,     \* ctx.Done() is closed
    last,        \* the last operation made on the handle by the caller
    ops,         \* number of handle operations made by the caller
    clsText,     \* text handed to isRetryableError by the classification run
    verdict,     \* its answer: none, yes, no
    variant,           \* scanner in use: columnCache (scanner.go) or reflectx
    columnCacheMap,    \* scanner.go: column fingerprint -> index of its ColumnCache
    caches,            \* the ColumnCache objects allocated so far
    traversalCacheMap, \* reflectx scanner: "type:columns" key -> traversals
    heap,              \* the destinations allocated so far, by address
    scans,             \* the scan call of each goroutine
    nScans,            \* number of scan calls made
    modelFieldsCache,  \* table name -> address of its modelInfo
    modelInfos,        \* the modelInfo objects built so far
    regs,              \* the registry call of each goroutine
    fq,                \* a call of FilterQuery: its inputs and what it returned
    retry,             \* a call of ExecuteWithRetry: its loop and the statements it issued
    batch,             \* a BatchInsertExecutor used by the body of WithTx
    qb                 \* a call of a statement builder: its inputs and what it returned

txVars == <<pc, call, txs, visible, hTx, maxRetries, attempt, err, result,
            bodyCalls, log, backoff, waits, slept, ctxDone, last, ops, clsText, verdict>>

scanVars == <<variant, columnCacheMap, caches, traversalCacheMap, heap, scans, nScans>>

regVars == <<modelFieldsCache, modelInfos, regs>>

fqVars == <<fq>>

opVars == <<retry, batch, qb>>

\* what the transaction manager, the scanner and the registry leave alone
nonTxVars == <<scanVars, regVars, fqVars, opVars>>

nonScanVars == <<txVars, regVars, fqVars, opVars>>

nonRegVars == <<txVars, scanVars, fqVars, opVars>>

vars == <<txVars, scanVars, regVars, fqVars, opVars>>

\* ---------------------------------------------------------------- bounds
MaxRetriesBound == 3
MaxRows == 1
MaxOps == 3
RandDen == 1000

\* ---------------------------------------------------------------- strings
Upper ==
    <<"A","B","C","D","E","F","G","H","I","J","K","L","M","N","O","P","Q","R","S","T","U","V","W","X","Y","Z">>
Lower ==
    <<"a","b","c","d","e","f","g","h","i","j","k","l","m","n","o","p","q","r","s","t","u","v","w","x","y","z">>

ToLowerChar(c) ==
    IF \E i \in 1..Len(Upper) : Upper[i] = c
    THEN Lower[CHOOSE i \in 1..Len(Upper) : Upper[i] = c]
    ELSE c

ToLower(s) == [i \in 1..Len(s) |-> ToLowerChar(s[i])]

Contains(s, substr) ==
    \E i \in 0..(Len(s) - Len(substr)) :
        \A j \in 1..Len(substr) : s[i + j] = substr[j]

\* Common retryable error substrings, in the order of the source
retryableErrors == <<
    <<"d","e","a","d","l","o","c","k"," ","d","e","t","e","c","t","e","d">>,  \* "deadlock detected"
    <<"s","e","r","i","a","l","i","z","e">>,  \* "serialize"
    <<"s","e","r","i","a","l","i","z","a","t","i","o","n">>,  \* "serialization"
    <<"c","o","n","f","l","i","c","t">>,  \* "conflict"
    <<"c","o","n","c","u","r","r","e","n","t"," ","u","p","d","a","t","e">>,  \* "concurrent update"
    <<"c","o","u","l","d"," ","n","o","t"," ","s","e","r","i","a","l","i","z","e"," ","a","c","c","e","s","s">>,  \* "could not serialize access"
    <<"d","e","a","d","l","o","c","k">>,  \* "deadlock"
    <<"l","o","c","k"," ","w","a","i","t"," ","t","i","m","e","o","u","t">>,  \* "lock wait timeout"
    <<"l","o","c","k"," ","t","i","m","e","o","u","t">>,  \* "lock timeout"
    <<"c","o","n","n","e","c","t","i","o","n"," ","r","e","s","e","t">>,  \* "connection reset"
    <<"4","0","0","0","1">>,  \* "40001"
    <<"4","0","P","0","1">>  \* "40P01"
    >>

\* ---------------------------------------------------------------- errors
\* An error value: its text and the sentinels errors.Is finds in its chain.
Nil == [msg |-> <<>>, is |-> {"nil"}]

New(text) == [msg |-> text, is |-> {}]

\* the text "transaction has already been committed or rolled back"
TxDoneText ==
    <<"t","r","a","n","s","a","c","t","i","o","n"," ","h","a","s"," ","a","l","r","e","a","d","y"," ","b","e","e","n"," ","c","o","m","m","i","t","t","e","d"," ","o","r"," ","r","o","l","l","e","d"," ","b","a","c","k">>

ErrTxDone == [msg |-> TxDoneText, is |-> {"ErrTxDone"}]

\* the text "transaction max retries exceeded"
MaxRetriesText ==
    <<"t","r","a","n","s","a","c","t","i","o","n"," ","m","a","x"," ","r","e","t","r","i","e","s"," ","e","x","c","e","e","d","e","d">>

ErrMaxRetriesExceeded == [msg |-> MaxRetriesText, is |-> {"ErrMaxRetriesExceeded"}]

\* the text "tx is closed"
TxClosedText ==
    <<"t","x"," ","i","s"," ","c","l","o","s","e","d">>

ErrTxClosed == [msg |-> TxClosedText, is |-> {"ErrTxClosed"}]

\* the text "context canceled"
CanceledText ==
    <<"c","o","n","t","e","x","t"," ","c","a","n","c","e","l","e","d">>

Canceled == [msg |-> CanceledText, is |-> {"Canceled"}]

\* the text "failed to commit transaction: "
CommitPrefix ==
    <<"f","a","i","l","e","d"," ","t","o"," ","c","o","m","m","i","t"," ","t","r","a","n","s","a","c","t","i","o","n",":"," ">>

\* the text "failed to rollback transaction: "
RollbackPrefix ==
    <<"f","a","i","l","e","d"," ","t","o"," ","r","o","l","l","b","a","c","k"," ","t","r","a","n","s","a","c","t","i","o","n",":"," ">>

\* the text "tx err: "
TxErrPrefix ==
    <<"t","x"," ","e","r","r",":"," ">>

\* the text ", rb err: "
RbErrInfix ==
    <<","," ","r","b"," ","e","r","r",":"," ">>

\* the text ": "
ColonSpace ==
    <<":"," ">>

\* fmt.Errorf(prefix + "%w", e)
Wrapf(prefix, e) == [msg |-> prefix \o e.msg, is |-> e.is]

\* fmt.Errorf("%w: %v", ErrMaxRetriesExceeded, e)
Exceeded(e) ==
    [msg |-> ErrMaxRetriesExceeded.msg \o ColonSpace \o e.msg,
     is |-> ErrMaxRetriesExceeded.is]

\* fmt.Errorf("tx err: %v, rb err: %v", e, rbErr)
TxAndRbErr(e, rbErr) ==
    [msg |-> TxErrPrefix \o e.msg \o RbErrInfix \o rbErr.msg, is |-> {}]

\* isRetryableError determines if an error can be retried
isRetryableError(e) ==
    IF e = Nil
    THEN FALSE
    ELSE LET errMsg == ToLower(e.msg)
         IN  \E i \in 1..Len(retryableErrors) : Contains(errMsg, retryableErrors[i])

\* ---------------------------------------------------------------- inputs

\* the text "deadlock detected"
DeadlockText ==
    <<"d","e","a","d","l","o","c","k"," ","d","e","t","e","c","t","e","d">>

\* the text "could not serialize access"
SerializeText ==
    <<"c","o","u","l","d"," ","n","o","t"," ","s","e","r","i","a","l","i","z","e"," ","a","c","c","e","s","s">>

\* the text "test error"
TestErrorText ==
    <<"t","e","s","t"," ","e","r","r","o","r">>

\* the text "duplicate key value"
DuplicateKeyText ==
    <<"d","u","p","l","i","c","a","t","e"," ","k","e","y"," ","v","a","l","u","e">>

\* the errors a body fn returns: two the classifier retries, two it does not
BodyErrors ==
    {New(DeadlockText), New(SerializeText), New(TestErrorText), New(DuplicateKeyText)}

\* what one invocation of fn does at its end: return nil, return an error, panic
Outcomes == {[kind |-> "nil", err |-> Nil]}
            \cup {[kind |-> "err", err |-> e] : e \in BodyErrors}
            \cup {[kind |-> "panic", err |-> Nil]}

\* rows a transaction can write; a row is tagged with the transaction writing it
Rows == 1..MaxRows

\* samples of rand.Float64(), as numerators over RandDen: 0, 1/2, just below 1
RandSamples == {0, RandDen \div 2, RandDen - 1}

\* texts handed to the classifier: every marker of the list, texts with no
\* marker, and texts in another letter case, alone or inside a longer message
OtherTexts == {
    <<"t","e","s","t"," ","e","r","r","o","r">>,  \* "test error"
    <<"d","u","p","l","i","c","a","t","e"," ","k","e","y"," ","v","a","l","u","e">>,  \* "duplicate key value"
    <<"s","y","n","t","a","x"," ","e","r","r","o","r">>,  \* "syntax error"
    <<"D","e","a","d","l","o","c","k"," ","D","e","t","e","c","t","e","d">>,  \* "Deadlock Detected"
    <<"L","o","c","k"," ","T","i","m","e","o","u","t">>  \* "Lock Timeout"
    }

TextPrefixes == {<<>>,
    <<"E","R","R","O","R",":"," ">>}  \* "ERROR: "

TextSuffixes == {<<>>,
    <<" ","(","p","i","d"," ","7",")">>}  \* " (pid 7)"

Texts ==
    {p \o b \o s : p \in TextPrefixes,
                   b \in {retryableErrors[i] : i \in 1..Len(retryableErrors)} \cup OtherTexts,
                   s \in TextSuffixes}

\* ---------------------------------------------------------------- pgx.Tx
\* DB.BeginTx: a new Active transaction with no pending write
PgxBegin(T) == Append(T, [status |-> "active", writes |-> {}])

\* a pgx.Tx is closed once Commit or Rollback went through
Closed(T, h) == T[h].status # "active"

\* the outcome of a Tx method: the error returned, the transactions and the
\* database afterwards, and the number of calls made to the pgx transaction
Outcome(e, T, V, n) == [err |-> e, txs |-> T, visible |-> V, calls |-> n]

\* ---------------------------------------------------------------- Tx methods
\* Commit commits the transaction
Commit(h, T, V) ==
    IF h = 0
    THEN Outcome(ErrTxDone, T, V, 0)
    ELSE IF Closed(T, h)
         THEN Outcome(Wrapf(CommitPrefix, ErrTxClosed), T, V, 1)
         ELSE Outcome(Nil, [T EXCEPT ![h].status = "committed"],
                      V \cup {<<h, r>> : r \in T[h].writes}, 1)

\* Rollback aborts the transaction; pgx.ErrTxClosed is not reported
Rollback(h, T, V) ==
    IF h = 0
    THEN Outcome(ErrTxDone, T, V, 0)
    ELSE IF Closed(T, h)
         THEN Outcome(Nil, T, V, 1)
         ELSE Outcome(Nil, [T EXCEPT ![h].status = "rolledback"], V, 1)

\* Exec and ExecContext execute a statement within the transaction
Exec(h, T, V, r) ==
    IF h = 0
    THEN Outcome(ErrTxDone, T, V, 0)
    ELSE IF Closed(T, h)
         THEN Outcome(ErrTxClosed, T, V, 1)
         ELSE Outcome(Nil, [T EXCEPT ![h].writes = @ \cup {r}], V, 1)

\* Query and QueryContext execute a query that returns rows
Query(h, T, V) ==
    IF h = 0
    THEN Outcome(ErrTxDone, T, V, 0)
    ELSE IF Closed(T, h)
         THEN Outcome(ErrTxClosed, T, V, 1)
         ELSE Outcome(Nil, T, V, 1)

\* a nil pgx.Row, which QueryRow returns in place of an error
NilRow == [msg |-> <<>>, is |-> {"nil Row"}]

\* QueryRow and QueryRowContext: the error is the one the Row's Scan reports
QueryRow(h, T, V) ==
    IF h = 0
    THEN Outcome(NilRow, T, V, 0)
    ELSE IF Closed(T, h)
         THEN Outcome(ErrTxClosed, T, V, 1)
         ELSE Outcome(Nil, T, V, 1)

\* Get and GetContext: the query, then the scan of its rows
GetContext(h, T, V) ==
    IF h = 0
    THEN Outcome(ErrTxDone, T, V, 0)
    ELSE IF Closed(T, h)
         THEN Outcome(ErrTxClosed, T, V, 1)
         ELSE Outcome(Nil, T, V, 1)

\* Select and SelectContext: the query, then the scan of its rows
SelectContext(h, T, V) ==
    IF h = 0
    THEN Outcome(ErrTxDone, T, V, 0)
    ELSE IF Closed(T, h)
         THEN Outcome(ErrTxClosed, T, V, 1)
         ELSE Outcome(Nil, T, V, 1)

\* ---------------------------------------------------------------- WithTxOptions
\* AfterFn with the two branches of the error test exchanged: commit on error
AfterFn_CommitOnError(o, h, T, V) ==
    IF o.kind = "panic"
    THEN LET rb == Rollback(h, T, V)
         IN  [err |-> Nil, txs |-> rb.txs, visible |-> rb.visible, panicked |-> TRUE]
    ELSE IF o.err # Nil
         THEN LET c == Commit(h, T, V)
              IN  [err |-> o.err, txs |-> c.txs, visible |-> c.visible, panicked |-> FALSE]
         ELSE LET c == Commit(h, T, V)
              IN  [err |-> c.err, txs |-> c.txs, visible |-> c.visible, panicked |-> FALSE]

\* AfterFn without the deferred recover: the panic leaves with no rollback
AfterFn_NoRecover(o, h, T, V) ==
    IF o.kind = "panic"
    THEN [err |-> Nil, txs |-> T, visible |-> V, panicked |-> TRUE]
    ELSE IF o.err # Nil
         THEN LET rb == Rollback(h, T, V)
              IN  [err |-> IF rb.err # Nil THEN TxAndRbErr(o.err, rb.err) ELSE o.err,
                   txs |-> rb.txs, visible |-> rb.visible, panicked |-> FALSE]
         ELSE LET c == Commit(h, T, V)
              IN  [err |-> c.err, txs |-> c.txs, visible |-> c.visible, panicked |-> FALSE]

\* AfterFn that returns the error of fn without rolling back
AfterFn_NoRollbackOnError(o, h, T, V) ==
    IF o.kind = "panic"
    THEN LET rb == Rollback(h, T, V)
         IN  [err |-> Nil, txs |-> rb.txs, visible |-> rb.visible, panicked |-> TRUE]
    ELSE IF o.err # Nil
         THEN [err |-> o.err, txs |-> T, visible |-> V, panicked |-> FALSE]
         ELSE LET c == Commit(h, T, V)
              IN  [err |-> c.err, txs |-> c.txs, visible |-> c.visible, panicked |-> FALSE]

\* WithTxOptions from the return of fn on: rollback and re-panic, rollback
\* and the error of fn, or commit.  panicked tells whether the panic leaves
\* the function.
AfterFn(o, h, T, V) ==
    IF o.kind = "panic"
    THEN LET rb == Rollback(h, T, V)
         IN  [err |-> Nil, txs |-> rb.txs, visible |-> rb.visible, panicked |-> TRUE]
    ELSE IF o.err # Nil
         THEN LET rb == Rollback(h, T, V)
              IN  [err |-> IF rb.err # Nil THEN TxAndRbErr(o.err, rb.err) ELSE o.err,
                   txs |-> rb.txs, visible |-> rb.visible, panicked |-> FALSE]
         ELSE LET c == Commit(h, T, V)
              IN  [err |-> c.err, txs |-> c.txs, visible |-> c.visible, panicked |-> FALSE]

\* ---------------------------------------------------------------- retry loop
\* the loop condition stopping one attempt early
LoopCondition_OneShort(a, m) == a < m - 1

\* the loop condition allowing one attempt more
LoopCondition_OneMore(a, m) == a <= m

\* the loop condition of WithTxRetryOptions
LoopCondition(a, m) == a < m

\* time.Millisecond, in microseconds
Millisecond == 1000

\* the literal 100 of the base backoff
BaseFactor == 100

\* 1 << uint(a)
Shl(a) == 2 ^ a

\* conversion of a quotient to time.Duration: truncation toward zero
Trunc(n, d) == IF n >= 0 THEN n \div d ELSE -((-n) \div d)

\* baseBackoff := time.Duration(1<<uint(attempt)) * 100 * time.Millisecond
BaseBackoff(a) == Shl(a) * BaseFactor * Millisecond

\* the jitter with a factor 0.5 in place of 0.2
Jitter_Wide(base, rn) == Trunc(base * 5 * (2 * rn - RandDen), 10 * 2 * RandDen)

\* jitter := time.Duration(float64(baseBackoff) * 0.2 * (rand.Float64() - 0.5)),
\* with rand.Float64() = rn / RandDen
Jitter(base, rn) == Trunc(base * 2 * (2 * rn - RandDen), 10 * 2 * RandDen)

\* backoff := baseBackoff + jitter
Backoff(a, rn) == BaseBackoff(a) + Jitter(BaseBackoff(a), rn)

\* the return value of an exhausted loop
Exhausted(e) == IF e # Nil THEN Exceeded(e) ELSE ErrMaxRetriesExceeded

\* AfterAttempt without the test of isRetryableError: every failure is retried
AfterAttempt_RetryAll(attemptErr, a, rn) ==
    IF attemptErr = Nil
    THEN [pc |-> "returned", result |-> Nil, err |-> Nil, backoff |-> 0]
    ELSE [pc |-> "backoff", result |-> Nil, err |-> attemptErr,
          backoff |-> Backoff(a, rn)]

\* WithTxRetryOptions from the return of WithTxOptions up to the select:
\* where the call goes next, what it returns, and the backoff it computed
AfterAttempt(attemptErr, a, rn) ==
    IF attemptErr = Nil
    THEN [pc |-> "returned", result |-> Nil, err |-> Nil, backoff |-> 0]
    ELSE IF ~isRetryableError(attemptErr)
         THEN [pc |-> "returned", result |-> attemptErr, err |-> attemptErr, backoff |-> 0]
         ELSE [pc |-> "backoff", result |-> Nil, err |-> attemptErr,
               backoff |-> Backoff(a, rn)]

\* ---------------------------------------------------------------- state
NoOp == [op |-> "none", err |-> Nil, calls |-> 0, done |-> FALSE]

\* a goroutine that is not scanning
IdleScan ==
    [pc |-> "idle", entry |-> "none", kind |-> "none", type |-> "none",
     cols |-> <<>>, q |-> 0, nrows |-> 0, pos |-> 0, dest |-> 0, rowDest |-> 0,
     slice |-> <<>>, own |-> {}, wrote |-> {}, cache |-> 0,
     trav |-> [traversals |-> <<>>, builtType |-> "none", builtCols |-> <<>>],
     used |-> {}, cold |-> FALSE, ret |-> Nil]

\* the goroutines that scan
Goroutines == {"g1", "g2"}

\* a goroutine that is not calling the registry
IdleReg ==
    [pc |-> "idle", calls |-> 0, op |-> "none", table |-> <<>>, alias |-> <<>>,
     model |-> <<>>,
     info |-> 0, found |-> FALSE, out |-> "none", fields |-> <<>>, names |-> <<>>,
     err |-> Nil]

\* the registry before any registration
RegIdle ==
    /\ modelFieldsCache = <<>>
    /\ modelInfos = <<>>
    /\ regs = [g \in Goroutines |-> IdleReg]

\* no call of FilterQuery
NoCall ==
    [baseQuery |-> <<>>, t |-> <<>>, filters |-> <<>>, sort |-> <<>>, table |-> <<>>,
     perPage |-> 0, page |-> 0, out |-> "none",
     conditions |-> <<>>, query |-> <<>>, args |-> <<>>, err |-> Nil,
     counted |-> FALSE, count |-> <<>>]

FqIdle == fq = NoCall

\* no call of ExecuteWithRetry
NoRetry == [pc |-> "idle", query |-> <<>>, i |-> 0, lastErr |-> Nil, log |-> <<>>, slept |-> 0,
            result |-> Nil]

\* no batch executor
NoBatch == [made |-> FALSE, local |-> FALSE, batchSize |-> 0, valuesBatch |-> <<>>,
            added |-> 0, flushed |-> FALSE]

\* no call of a statement builder
NoBuild == [op |-> "none", model |-> <<>>, table |-> <<>>, whereClause |-> <<>>, whereArgs |-> <<>>,
            valuesMap |-> <<>>, returning |-> <<>>, out |-> "none",
            query |-> <<>>, args |-> <<>>]

OpIdle ==
    /\ retry = NoRetry
    /\ batch = NoBatch
    /\ qb = NoBuild

\* the scanner before any scan: both caches empty, nothing allocated
ScanIdle ==
    /\ variant = "columnCache"
    /\ columnCacheMap = <<>>
    /\ caches = <<>>
    /\ traversalCacheMap = <<>>
    /\ heap = <<>>
    /\ scans = [g \in Goroutines |-> IdleScan]
    /\ nScans = 0

\* the transaction manager before any call
TxIdle ==
    /\ pc = "idle"
    /\ call = "none"
    /\ txs = <<>>
    /\ visible = {}
    /\ hTx = 0
    /\ maxRetries = 0
    /\ attempt = 0
    /\ err = Nil
    /\ result = Nil
    /\ bodyCalls = 0
    /\ log = <<>>
    /\ backoff = 0
    /\ waits = 0
    /\ slept = 0
    /\ ctxDone = FALSE
    /\ last = NoOp
    /\ ops = 0
    /\ clsText = <<>>
    /\ verdict = "none"

Init ==
    /\ TxIdle
    /\ ScanIdle
    /\ RegIdle
    /\ FqIdle
    /\ OpIdle

\* ---------------------------------------------------------------- the caller's handle
\* BeginTx: the caller gets a handle and drives it itself
BeginTx ==
    /\ UNCHANGED nonTxVars
    /\ pc = "idle"
    /\ pc' = "manual"
    /\ call' = "BeginTx"
    /\ txs' = PgxBegin(txs)
    /\ hTx' = Len(txs) + 1
    /\ UNCHANGED <<visible, maxRetries, attempt, err, result, bodyCalls, log,
                   backoff, waits, slept, ctxDone, last, ops, clsText, verdict>>

\* one operation of the caller on its handle, with the outcome o of the method
HandleOp(name, o) ==
    /\ UNCHANGED nonTxVars
    /\ pc = "manual"
    /\ ops < MaxOps
    /\ ops' = ops + 1
    /\ last' = [op |-> name, err |-> o.err, calls |-> o.calls, done |-> Closed(txs, hTx)]
    /\ txs' = o.txs
    /\ visible' = o.visible
    /\ UNCHANGED <<pc, call, hTx, maxRetries, attempt, err, result, bodyCalls, log,
                   backoff, waits, slept, ctxDone, clsText, verdict>>

TxCommit == HandleOp("Commit", Commit(hTx, txs, visible))

TxRollback == HandleOp("Rollback", Rollback(hTx, txs, visible))

TxExec(r) == HandleOp("Exec", Exec(hTx, txs, visible, r))

TxQuery == HandleOp("Query", Query(hTx, txs, visible))

TxQueryRow == HandleOp("QueryRow", QueryRow(hTx, txs, visible))

TxGet == HandleOp("Get", GetContext(hTx, txs, visible))

TxSelect == HandleOp("Select", SelectContext(hTx, txs, visible))

\* ---------------------------------------------------------------- WithTx, WithTxRetry
\* WithTx: WithTxOptions with the default options, up to the call of fn
WithTx ==
    /\ UNCHANGED nonTxVars
    /\ pc = "idle"
    /\ pc' = "body"
    /\ call' = "WithTx"
    /\ txs' = PgxBegin(txs)
    /\ hTx' = Len(txs) + 1
    /\ bodyCalls' = bodyCalls + 1
    /\ UNCHANGED <<visible, maxRetries, attempt, err, result, log,
                   backoff, waits, slept, ctxDone, last, ops, clsText, verdict>>

\* WithTxRetryOptions with opts.MaxRetries = m, up to the first call of fn,
\* or to its return when the loop is not entered
WithTxRetryOptions(m) ==
    /\ UNCHANGED nonTxVars
    /\ pc = "idle"
    /\ call' = "WithTxRetry"
    /\ maxRetries' = m
    /\ attempt' = 0
    /\ IF LoopCondition(0, m)
       THEN /\ pc' = "body"
            /\ txs' = PgxBegin(txs)
            /\ hTx' = Len(txs) + 1
            /\ bodyCalls' = bodyCalls + 1
            /\ UNCHANGED result
       ELSE /\ pc' = "returned"
            /\ result' = Exhausted(err)
            /\ UNCHANGED <<txs, hTx, bodyCalls>>
    /\ UNCHANGED <<visible, err, log, backoff, waits, slept, ctxDone, last, ops,
                   clsText, verdict>>

\* fn executes a statement through the handle it was given
FnExec(r) ==
    /\ UNCHANGED nonTxVars
    /\ pc = "body"
    /\ r \notin txs[hTx].writes
    /\ LET o == Exec(hTx, txs, visible, r)
       IN  /\ txs' = o.txs
           /\ visible' = o.visible
    /\ UNCHANGED <<pc, call, hTx, maxRetries, attempt, err, result, bodyCalls, log,
                   backoff, waits, slept, ctxDone, last, ops, clsText, verdict>>

\* fn ends with outcome o: the rest of WithTxOptions and, in a retrying call,
\* the loop body up to the select; rn is the draw of rand.Float64()
FnReturns(o, rn) ==
    /\ UNCHANGED nonTxVars
    /\ pc = "body"
    /\ LET a == AfterFn(o, hTx, txs, visible)
           n == AfterAttempt(a.err, attempt, rn)
       IN  /\ txs' = a.txs
           /\ visible' = a.visible
           /\ log' = Append(log, [kind |-> o.kind, err |-> a.err])
           /\ IF a.panicked
              THEN /\ pc' = "panicked"
                   /\ UNCHANGED <<err, result, backoff, waits>>
              ELSE IF call = "WithTx"
                   THEN /\ pc' = "returned"
                        /\ result' = a.err
                        /\ UNCHANGED <<err, backoff, waits>>
                   ELSE /\ pc' = n.pc
                        /\ result' = n.result
                        /\ err' = n.err
                        /\ backoff' = n.backoff
                        /\ waits' = IF n.pc = "backoff" THEN waits + 1 ELSE waits
    /\ UNCHANGED <<call, hTx, maxRetries, attempt, bodyCalls, slept, ctxDone,
                   last, ops, clsText, verdict>>

\* case <-time.After(backoff): the sleep completes, the loop goes on
TimerFires ==
    /\ UNCHANGED nonTxVars
    /\ pc = "backoff"
    /\ slept' = slept + 1
    /\ attempt' = attempt + 1
    /\ IF LoopCondition(attempt + 1, maxRetries)
       THEN /\ pc' = "body"
            /\ txs' = PgxBegin(txs)
            /\ hTx' = Len(txs) + 1
            /\ bodyCalls' = bodyCalls + 1
            /\ UNCHANGED result
       ELSE /\ pc' = "returned"
            /\ result' = Exhausted(err)
            /\ UNCHANGED <<txs, hTx, bodyCalls>>
    /\ UNCHANGED <<call, visible, maxRetries, err, log, backoff, waits, ctxDone,
                   last, ops, clsText, verdict>>

\* a wait that is not cancellable: the cancellation is not looked at
ContextCancelled_Ignored ==
    /\ UNCHANGED nonTxVars
    /\ pc = "backoff"
    /\ ~ctxDone
    /\ ctxDone' = TRUE
    /\ UNCHANGED <<pc, call, txs, visible, hTx, maxRetries, attempt, err, result,
                   bodyCalls, log, backoff, waits, slept, last, ops, clsText, verdict>>

\* case <-ctx.Done(): the context is cancelled during the wait
ContextCancelled ==
    /\ UNCHANGED nonTxVars
    /\ pc = "backoff"
    /\ ctxDone' = TRUE
    /\ pc' = "returned"
    /\ result' = Canceled
    /\ UNCHANGED <<call, txs, visible, hTx, maxRetries, attempt, err, bodyCalls, log,
                   backoff, waits, slept, last, ops, clsText, verdict>>

Next ==
    \/ BeginTx
    \/ TxCommit
    \/ TxRollback
    \/ \E r \in Rows : TxExec(r)
    \/ TxQuery
    \/ TxQueryRow
    \/ TxGet
    \/ TxSelect
    \/ WithTx
    \/ \E m \in 0..MaxRetriesBound : WithTxRetryOptions(m)
    \/ \E r \in Rows : FnExec(r)
    \/ \E o \in Outcomes, rn \in RandSamples : FnReturns(o, rn)
    \/ TimerFires
    \/ ContextCancelled

Spec == Init /\ [][Next]_vars

\* the body ends and timers fire: every step that can be taken is taken
FairSpec == Spec /\ WF_vars(Next)

\* ---------------------------------------------------------------- classification run
ClassifyInit ==
    /\ pc = "idle"
    /\ call = "none"
    /\ txs = <<>>
    /\ visible = {}
    /\ hTx = 0
    /\ maxRetries = 0
    /\ attempt = 0
    /\ err = Nil
    /\ result = Nil
    /\ bodyCalls = 0
    /\ log = <<>>
    /\ backoff = 0
    /\ waits = 0
    /\ slept = 0
    /\ ctxDone = FALSE
    /\ last = NoOp
    /\ ops = 0
    /\ clsText \in Texts
    /\ verdict = "none"
    /\ ScanIdle
    /\ RegIdle
    /\ FqIdle
    /\ OpIdle

\* isRetryableError is applied to an error with the text clsText
Classify ==
    /\ UNCHANGED nonTxVars
    /\ verdict = "none"
    /\ clsText # <<>>
    /\ verdict' = IF isRetryableError(New(clsText)) THEN "yes" ELSE "no"
    /\ UNCHANGED <<pc, call, txs, visible, hTx, maxRetries, attempt, err, result,
                   bodyCalls, log, backoff, waits, slept, ctxDone, last, ops, clsText>>

ClassifyNext == Classify

ClassifySpec == ClassifyInit /\ [][ClassifyNext]_vars

\* ================================================================ result mapper
\* Two scanners are in the repository: scanner.go, whose ColumnCache is found
\* by a fingerprint of the column names and holds the addresses of fields, and
\* the reflectx scanner, whose traversal cache is keyed by type and columns
\* and holds field index paths.  A run uses one of them (variant).  A column
\* name is one token; a key is the sequence of its tokens.  The value of
\* column c in row i of the result of call q is <<q, i, c>>, so that a value
\* names the call and the row it came from.  A slice destination is a slice
\* of values ([]T): appending copies the element.
MaxScans == 2
MaxResultRows == 2

Variants == {"columnCache", "reflectx"}

\* sql.ErrNoRows
ErrNoRows ==
    [msg |-> <<"s","q","l",":"," ","n","o"," ","r","o","w","s"," ","i","n"," ","r","e","s","u","l","t"," ","s","e","t">>,
     is |-> {"ErrNoRows"}]

\* errors.New("query returned multiple rows for a single destination")
MultipleRows ==
    New(<<"q","u","e","r","y"," ","r","e","t","u","r","n","e","d"," ","m","u","l","t","i","p","l","e"," ","r","o","w","s"," ","f","o","r"," ","a"," ","s","i","n","g","l","e"," ","d","e","s","t","i","n","a","t","i","o","n">>)

\* the record types scanned into, with the same db tags on their fields
StructTypes == {"UserProfileFull", "UserProfileWithNullInt64"}

\* getFieldMap / mapper.TypeMap: the db tags of a type; a primitive has none
Tags(t) ==
    IF t \in StructTypes
    THEN {"uuid", "username", "user_experience", "follower_count", "personas_count"}
    ELSE {}

\* the column lists of the queries
ColumnLists == {
    <<"uuid", "username">>,
    <<"uuid", "username", "user_experience", "follower_count", "personas_count">>,
    <<"uuid", "user_experience", "username", "follower_count", "personas_count">>}

\* the one column of a query scanned into a primitive
PrimCols == <<"count">>

\* the calls a goroutine can make: entry point, destination, result columns
Shapes ==
    {[entry |-> e, kind |-> "struct", type |-> t, cols |-> c] :
        e \in {"ScanRows", "ScanSingle"}, t \in StructTypes, c \in ColumnLists}
    \cup {[entry |-> "ScanRows", kind |-> "slice", type |-> t, cols |-> c] :
        t \in StructTypes, c \in ColumnLists}
    \cup {[entry |-> e, kind |-> "prim", type |-> "int", cols |-> PrimCols] :
        e \in {"ScanRows", "ScanSingle"}}
    \cup {[entry |-> "ScanRows", kind |-> "primSlice", type |-> "int", cols |-> PrimCols]}

Zero == <<>>

Value(q, i, c) == <<q, i, c>>

\* reflect.New(t): a zero value of the type at a fresh address
ReflectNew(t) ==
    [type |-> t, prim |-> Zero, f |-> [c \in Tags(t) |-> Zero]]

NilPtr == [obj |-> 0, field |-> "nil"]

Placeholder == [obj |-> 0, field |-> "placeholder"]

RECURSIVE Join(_, _)
\* the names separated by sep, token by token
Join(names, sep) ==
    IF Len(names) = 0 THEN <<>>
    ELSE IF Len(names) = 1 THEN <<names[1]>>
    ELSE <<names[1], sep>> \o Join(Tail(names), sep)

RECURSIVE Itoa(_)
\* fmt.Sprintf("%d", n) for n >= 0
Itoa(n) ==
    LET d == <<"0", "1", "2", "3", "4", "5", "6", "7", "8", "9">>
    IN  IF n < 10 THEN <<d[n + 1]>> ELSE Itoa(n \div 10) \o <<d[(n % 10) + 1]>>

\* scanner.go: the key of the ColumnCache of a result
getColumnFingerprint(columns) ==
    IF Len(columns) < 5
    THEN Join(columns, "|")
    ELSE <<columns[1], "|", columns[Len(columns)], "|">> \o Itoa(Len(columns))

\* reflectx scanner: the key of the traversal cache
cacheKey(baseType, columns) == <<baseType, ":">> \o Join(columns, ",")

\* the traversal of each column in a type: its field, or nil
Traversals(t, columns) ==
    [i \in 1..Len(columns) |-> IF columns[i] \in Tags(t) THEN columns[i] ELSE "nil"]

\* setupScanDests: the scan destinations of the value at address a
setupScanDests(a, traversals) ==
    [i \in 1..Len(traversals) |->
        IF traversals[i] = "nil" THEN Placeholder
        ELSE [obj |-> a, field |-> traversals[i]]]

\* the ColumnCache made on a miss: make([]interface{}, len(columns))
FreshCache(columns) ==
    [initialized |-> FALSE,
     fieldPointers |-> [i \in 1..Len(columns) |-> NilPtr],
     builtType |-> "none", builtCols |-> <<>>]

\* initializeCache: the addresses of the fields of the value at address a
initializeCache(columns, a, t) ==
    [initialized |-> TRUE,
     fieldPointers |->
        [i \in 1..Len(columns) |->
            IF columns[i] \in Tags(t) THEN [obj |-> a, field |-> columns[i]]
            ELSE Placeholder],
     builtType |-> t, builtCols |-> columns]

RECURSIVE RowsScan(_, _, _, _, _, _)
\* pgx rows.Scan(ptrs...) on row i of call q, from column k on: a nil
\* destination is skipped, a placeholder takes the value and drops it
RowsScan(H, ptrs, q, i, columns, k) ==
    IF k > Len(ptrs) \/ k > Len(columns) THEN H
    ELSE LET p == ptrs[k]
             H1 == IF p.obj = 0 THEN H
                   ELSE [H EXCEPT ![p.obj].f[p.field] = Value(q, i, columns[k])]
         IN  RowsScan(H1, ptrs, q, i, columns, k + 1)

\* the addresses a scan through ptrs writes to
Targets(ptrs) == {ptrs[k].obj : k \in 1..Len(ptrs)} \ {0}

\* rows.Scan(dest) for a primitive at address a
PrimScan(H, a, q, i, columns) == [H EXCEPT ![a].prim = Value(q, i, columns[1])]

\* what a full scan of row i of call q leaves in a value of type t
RowOf(t, q, i, columns) ==
    [c \in Tags(t) |->
        IF \E k \in 1..Len(columns) : columns[k] = c THEN Value(q, i, c) ELSE Zero]

\* ---------------------------------------------------------------- scanner: calls
\* rows.Next() of the cursor of a call: there is a next row
HasNext(s) == s.pos < s.nrows

\* where a call starts after its entry point's own steps
StartPc(shape) ==
    IF variant = "columnCache" THEN "load"
    ELSE IF shape.kind = "primSlice" THEN "rows"
    ELSE IF shape.kind = "slice" \/ shape.entry = "ScanSingle" THEN "lookup"
    ELSE "next"

\* the cache holds nothing for the result of the call
Cold(shape) ==
    IF variant = "columnCache"
    THEN getColumnFingerprint(shape.cols) \notin DOMAIN columnCacheMap
    ELSE cacheKey(shape.type, shape.cols) \notin DOMAIN traversalCacheMap

\* goroutine g calls ScanRows (StructScan, StructsScan, Get, Select) or
\* ScanSingle on a result of n rows with a destination of its own; ScanSingle
\* begins with rows.Next().  The reflectx ScanSingle is called with a struct.
ScanCall(g, shape, n) ==
    /\ scans[g].pc \in {"idle", "done"}
    /\ nScans < MaxScans
    /\ ~(variant = "reflectx" /\ shape.entry = "ScanSingle" /\ shape.kind = "prim")
    /\ nScans' = nScans + 1
    /\ LET single == shape.kind \in {"struct", "prim"}
           a == Len(heap) + 1
           s0 == [IdleScan EXCEPT !.entry = shape.entry, !.kind = shape.kind,
                                  !.type = shape.type, !.cols = shape.cols,
                                  !.q = nScans + 1, !.nrows = n,
                                  !.dest = IF single THEN a ELSE 0,
                                  !.own = IF single THEN {a} ELSE {},
                                  !.cold = Cold(shape)]
       IN  /\ heap' = IF single THEN Append(heap, ReflectNew(shape.type)) ELSE heap
           /\ scans' = [scans EXCEPT ![g] =
                  IF shape.entry = "ScanSingle"
                  THEN IF n = 0
                       THEN [s0 EXCEPT !.pc = "done", !.ret = ErrNoRows]
                       ELSE [s0 EXCEPT !.pc = StartPc(shape), !.pos = 1]
                  ELSE [s0 EXCEPT !.pc = StartPc(shape)]]
    /\ UNCHANGED <<variant, columnCacheMap, caches, traversalCacheMap, nonScanVars>>

\* ---------------------------------------------------------------- scanner.go
\* columnCacheMap.Load: the entry of the fingerprint, or a new ColumnCache
CacheLoad(g) ==
    /\ scans[g].pc = "load"
    /\ LET fp == getColumnFingerprint(scans[g].cols)
       IN  IF fp \in DOMAIN columnCacheMap
           THEN /\ scans' = [scans EXCEPT ![g].pc = "rows",
                                          ![g].cache = columnCacheMap[fp]]
                /\ UNCHANGED caches
           ELSE /\ caches' = Append(caches, FreshCache(scans[g].cols))
                /\ scans' = [scans EXCEPT ![g].pc = "store",
                                          ![g].cache = Len(caches) + 1]
    /\ UNCHANGED <<variant, columnCacheMap, traversalCacheMap, heap, nScans, nonScanVars>>

\* columnCacheMap.Store of the new entry, before it is initialized
CacheStore(g) ==
    /\ scans[g].pc = "store"
    /\ columnCacheMap' =
           (getColumnFingerprint(scans[g].cols) :> scans[g].cache) @@ columnCacheMap
    /\ scans' = [scans EXCEPT ![g].pc = "rows"]
    /\ UNCHANGED <<variant, caches, traversalCacheMap, heap, nScans, nonScanVars>>

\* what a read of cache.initialized by g can give: the field is read without
\* synchronisation, so while another goroutine is in initializeCache on the
\* same entry the read can already give true
SeenInitialized(g) ==
    {caches[scans[g].cache].initialized}
    \cup {TRUE : h \in {h \in Goroutines \ {g} :
                         scans[h].pc = "init" /\ scans[h].cache = scans[g].cache}}

\* after the row was scanned into a single destination: rows.Next()
AfterSingle(s) ==
    IF HasNext(s)
    THEN [s EXCEPT !.pc = "done", !.pos = s.pos + 1, !.ret = MultipleRows]
    ELSE [s EXCEPT !.pc = "done", !.ret = Nil]

\* ScanRows from rows.Next() to the test of cache.initialized: the head of
\* the loop of a slice destination, or the single destination path
RowsNext(g, seen) ==
    /\ variant = "columnCache"
    /\ scans[g].pc = "rows"
    /\ seen \in SeenInitialized(g)
    /\ LET s == scans[g]
           i == s.pos + 1
           a == Len(heap) + 1
           go == IF seen THEN "scanrow" ELSE "init"
       IN  IF ~HasNext(s)
           THEN /\ scans' = [scans EXCEPT ![g] =
                       [s EXCEPT !.pc = "done",
                                 !.ret = IF s.kind \in {"slice", "primSlice"}
                                         THEN Nil ELSE ErrNoRows]]
                /\ UNCHANGED heap
           ELSE IF s.kind = "primSlice"
           THEN /\ scans' = [scans EXCEPT ![g] =
                       [s EXCEPT !.pos = i,
                                 !.slice = Append(s.slice, Value(s.q, i, s.cols[1]))]]
                /\ UNCHANGED heap
           ELSE IF s.kind = "prim"
           THEN /\ heap' = PrimScan(heap, s.dest, s.q, i, s.cols)
                /\ scans' = [scans EXCEPT ![g] =
                       [s EXCEPT !.pc = "done", !.pos = i, !.ret = Nil,
                                 !.wrote = s.wrote \cup {s.dest}]]
           ELSE IF s.kind = "slice"
           THEN /\ heap' = Append(heap, ReflectNew(s.type))
                /\ scans' = [scans EXCEPT ![g] =
                       [s EXCEPT !.pc = go, !.pos = i, !.rowDest = a,
                                 !.own = s.own \cup {a}]]
           ELSE /\ scans' = [scans EXCEPT ![g] =
                       [s EXCEPT !.pc = go, !.pos = i, !.rowDest = s.dest]]
                /\ UNCHANGED heap
    /\ UNCHANGED <<variant, columnCacheMap, caches, traversalCacheMap, nScans, nonScanVars>>

\* initializeCache(cache, columns, rowDest)
InitCache(g) ==
    /\ scans[g].pc = "init"
    /\ caches' = [caches EXCEPT ![scans[g].cache] =
           initializeCache(scans[g].cols, scans[g].rowDest, scans[g].type)]
    /\ scans' = [scans EXCEPT ![g].pc = "scanrow"]
    /\ UNCHANGED <<variant, columnCacheMap, traversalCacheMap, heap, nScans, nonScanVars>>

\* scanWithCache(cache, rows), then the append to the slice or, for a single
\* destination, the test for a further row
ScanWithCache(g) ==
    /\ scans[g].pc = "scanrow"
    /\ LET s == scans[g]
           c == caches[s.cache]
           H == RowsScan(heap, c.fieldPointers, s.q, s.pos, s.cols, 1)
           s1 == [s EXCEPT !.wrote = s.wrote \cup Targets(c.fieldPointers),
                           !.used = s.used \cup
                               {[type |-> c.builtType, cols |-> c.builtCols]}]
       IN  /\ heap' = H
           /\ scans' = [scans EXCEPT ![g] =
                  IF s.kind = "slice"
                  THEN [s1 EXCEPT !.pc = "rows",
                                  !.slice = Append(s.slice, H[s.rowDest].f)]
                  ELSE AfterSingle(s1)]
    /\ UNCHANGED <<variant, columnCacheMap, caches, traversalCacheMap, nScans, nonScanVars>>

\* ---------------------------------------------------------------- reflectx scanner
\* scanSingle up to the traversals: rows.Next(), and the whole of the
\* primitive path, which returns what rows.Scan returns
ScanSingleNext(g) ==
    /\ scans[g].pc = "next"
    /\ LET s == scans[g]
           i == s.pos + 1
       IN  IF ~HasNext(s)
           THEN /\ scans' = [scans EXCEPT ![g] =
                       [s EXCEPT !.pc = "done", !.ret = ErrNoRows]]
                /\ UNCHANGED heap
           ELSE IF s.kind = "prim"
           THEN /\ heap' = PrimScan(heap, s.dest, s.q, i, s.cols)
                /\ scans' = [scans EXCEPT ![g] =
                       [s EXCEPT !.pc = "done", !.pos = i, !.ret = Nil,
                                 !.wrote = s.wrote \cup {s.dest}]]
           ELSE /\ scans' = [scans EXCEPT ![g] = [s EXCEPT !.pc = "lookup", !.pos = i]]
                /\ UNCHANGED heap
    /\ UNCHANGED <<variant, columnCacheMap, caches, traversalCacheMap, nScans, nonScanVars>>

\* getTraversalsAndScanners under the read lock: the cached traversals, or
\* on a miss the traversals computed from the type map
TraversalLookup(g) ==
    /\ scans[g].pc = "lookup"
    /\ LET s == scans[g]
           key == cacheKey(s.type, s.cols)
       IN  scans' = [scans EXCEPT ![g] =
               IF key \in DOMAIN traversalCacheMap
               THEN [s EXCEPT !.pc = "rows", !.trav = traversalCacheMap[key]]
               ELSE [s EXCEPT !.pc = "publish",
                              !.trav = [traversals |-> Traversals(s.type, s.cols),
                                        builtType |-> s.type, builtCols |-> s.cols]]]
    /\ UNCHANGED <<variant, columnCacheMap, caches, traversalCacheMap, heap, nScans, nonScanVars>>

\* getTraversalsAndScanners under the write lock: the entry is stored
TraversalStore(g) ==
    /\ scans[g].pc = "publish"
    /\ traversalCacheMap' =
           (cacheKey(scans[g].type, scans[g].cols) :> scans[g].trav) @@ traversalCacheMap
    /\ scans' = [scans EXCEPT ![g].pc = "rows"]
    /\ UNCHANGED <<variant, columnCacheMap, caches, heap, nScans, nonScanVars>>

\* one pass of the loop of scanSlice, or the rest of scanSingle and
\* ScanSingle for a struct: setupScanDests on the value of this call,
\* rows.Scan, then the append or the test for a further row
ReflectxRows(g) ==
    /\ variant = "reflectx"
    /\ scans[g].pc = "rows"
    /\ LET s == scans[g]
           i == s.pos + 1
           a == Len(heap) + 1
           s1 == [s EXCEPT !.used = s.used \cup
                      {[type |-> s.trav.builtType, cols |-> s.trav.builtCols]}]
       IN  IF s.kind = "struct"
           THEN LET values == setupScanDests(s.dest, s.trav.traversals)
                IN  /\ heap' = RowsScan(heap, values, s.q, s.pos, s.cols, 1)
                    /\ scans' = [scans EXCEPT ![g] =
                           AfterSingle([s1 EXCEPT !.wrote = s.wrote \cup Targets(values)])]
           ELSE IF ~HasNext(s)
           THEN /\ scans' = [scans EXCEPT ![g] = [s EXCEPT !.pc = "done", !.ret = Nil]]
                /\ UNCHANGED heap
           ELSE IF s.kind = "primSlice"
           THEN /\ scans' = [scans EXCEPT ![g] =
                       [s EXCEPT !.pos = i,
                                 !.slice = Append(s.slice, Value(s.q, i, s.cols[1]))]]
                /\ UNCHANGED heap
           ELSE LET values == setupScanDests(a, s.trav.traversals)
                    H == RowsScan(Append(heap, ReflectNew(s.type)),
                                  values, s.q, i, s.cols, 1)
                IN  /\ heap' = H
                    /\ scans' = [scans EXCEPT ![g] =
                           [s1 EXCEPT !.pos = i, !.rowDest = a,
                                      !.own = s.own \cup {a},
                                      !.wrote = s.wrote \cup Targets(values),
                                      !.slice = Append(s.slice, H[a].f)]]
    /\ UNCHANGED <<variant, columnCacheMap, caches, traversalCacheMap, nScans, nonScanVars>>

\* ---------------------------------------------------------------- scanner: runs
ScanInit ==
    /\ TxIdle
    /\ variant \in Variants
    /\ columnCacheMap = <<>>
    /\ caches = <<>>
    /\ traversalCacheMap = <<>>
    /\ heap = <<>>
    /\ scans = [g \in Goroutines |-> IdleScan]
    /\ nScans = 0
    /\ RegIdle
    /\ FqIdle
    /\ OpIdle

ScanNext ==
    \/ \E g \in Goroutines, shape \in Shapes, n \in 0..MaxResultRows : ScanCall(g, shape, n)
    \/ \E g \in Goroutines : CacheLoad(g)
    \/ \E g \in Goroutines : CacheStore(g)
    \/ \E g \in Goroutines, seen \in BOOLEAN : RowsNext(g, seen)
    \/ \E g \in Goroutines : InitCache(g)
    \/ \E g \in Goroutines : ScanWithCache(g)
    \/ \E g \in Goroutines : ScanSingleNext(g)
    \/ \E g \in Goroutines : TraversalLookup(g)
    \/ \E g \in Goroutines : TraversalStore(g)
    \/ \E g \in Goroutines : ReflectxRows(g)

ScanSpec == ScanInit /\ [][ScanNext]_vars

\* ================================================================ model registry
\* cache.go.  Table names, aliases, field names, db tags and dbMode tags are
\* texts; an insert value is a token.  modelFieldsCache maps a table
\* name to the address of its modelInfo, so that a goroutine that has read
\* the address keeps the modelInfo it read.
\* `"` + quotesReplacer.Replace(s) + `"`
Quoted(s) == <<"\"">> \o SelectSeq(s, LAMBDA c : c # "\"") \o <<"\"">>

RECURSIVE SplitModes(_, _)
\* the pieces of dbMode between commas, cur being the piece in progress
SplitModes(dbMode, cur) ==
    IF dbMode = <<>> THEN {cur}
    ELSE IF Head(dbMode) = "," THEN {cur} \cup SplitModes(Tail(dbMode), <<>>)
    ELSE SplitModes(Tail(dbMode), Append(cur, Head(dbMode)))

\* the keys of modeParser after the parse of a dbMode tag
modeParser(dbMode) == IF dbMode = <<>> THEN {} ELSE SplitModes(dbMode, <<>>)

\* computeFieldsByModeInternal: the column references and the column names
computeFieldsByModeInternal(dbFields, quotedTableName, aliasTableName) ==
    LET cleanAliasName == SelectSeq(aliasTableName, LAMBDA c : c # "\"")
        ref(c) == IF aliasTableName # <<>>
                  THEN <<"\"">> \o cleanAliasName \o <<"\"", ".">> \o Quoted(c)
                       \o <<" ","A","S"," ","\"">> \o cleanAliasName \o <<".">> \o c
                       \o <<"\"">>
                  ELSE quotedTableName \o <<".">> \o Quoted(c)
    IN  [fields |-> [i \in 1..Len(dbFields) |-> ref(dbFields[i])],
         names |-> dbFields]

\* the modelInfo InitModelTagCache builds for a model and a table name.  A
\* field is looked at when its db tag is neither empty nor "-"; a linked
\* field goes to linkedFields and nowhere else; any other goes to dbTagMap,
\* and, unless it is marked s, to the select list and to the insert and
\* update lists its flags name
BuildModelInfo(model, tableName) ==
    LET flags(f) ==
            LET p == modeParser(f.dbMode)
            IN  (IF <<"i">> \in p THEN {"modeInsert"} ELSE {})
                \cup (IF <<"u">> \in p THEN {"modeUpdate"} ELSE {})
                \cup (IF <<"s">> \in p THEN {"modeSkip"} ELSE {})
                \cup (IF <<"l">> \in p \/ <<"l","i","n","k">> \in p
                      THEN {"modeLink"} ELSE {})
        tagged(f) == f.db # <<>> /\ f.db # <<"-">>
        linked(f) == tagged(f) /\ "modeLink" \in flags(f)
        inTagMap(f) == tagged(f) /\ ~linked(f)
        inSelect(f) == inTagMap(f) /\ "modeSkip" \notin flags(f)
        inInsert(f) == inSelect(f) /\ "modeInsert" \in flags(f)
        inUpdate(f) == inSelect(f) /\ "modeUpdate" \in flags(f)
        hasValue(f) == inInsert(f) /\ f.dbInsertValue # ""
        columns(fs) == [i \in 1..Len(fs) |-> fs[i].db]
        lastNamed(fs, n) == CHOOSE i \in 1..Len(fs) :
                           fs[i].name = n /\ \A j \in (i + 1)..Len(fs) : fs[j].name # n
        lastWithDb(fs, c) == CHOOSE i \in 1..Len(fs) :
                             fs[i].db = c /\ \A j \in (i + 1)..Len(fs) : fs[j].db # c
        byName(fs) == [n \in {fs[i].name : i \in 1..Len(fs)} |-> fs[lastNamed(fs, n)].db]
        sel == columns(SelectSeq(model, inSelect))
        ins == columns(SelectSeq(model, inInsert))
        upd == columns(SelectSeq(model, inUpdate))
        withValue == SelectSeq(model, hasValue)
        q == Quoted(tableName)
        empty == computeFieldsByModeInternal(sel, q, <<>>)
    IN  [dbTagMap |-> byName(SelectSeq(model, inTagMap)),
         dbInsertValueMap |->
             [c \in {withValue[i].db : i \in 1..Len(withValue)} |->
                 withValue[lastWithDb(withValue, c)].dbInsertValue],
         dbFieldsSelect |-> sel,
         dbFieldsInsert |-> ins,
         dbFieldsUpdate |-> upd,
         linkedFields |-> byName(SelectSeq(model, linked)),
         quotedTableName |-> q,
         selectFieldsCache |-> (<<>> :> empty.fields),
         selectFieldNamesCache |-> (<<>> :> empty.names),
         insertFieldsCache |-> computeFieldsByModeInternal(ins, q, <<>>),
         updateFieldsCache |-> computeFieldsByModeInternal(upd, q, <<>>)]

\* panic("table name not initialized: " + tableName) and the error of
\* constructConditions with the same text
NotInitialized(tableName) ==
    New(<<"t","a","b","l","e"," ","n","a","m","e"," ","n","o","t"," ","i","n","i","t","i","a","l","i","z","e","d",":"," ">>
        \o tableName)

\* the base query of the tests, cut to a text without placeholders
realmBaseQuery == <<"S", "E", "L", "E", "C", "T", " ", "*", " ", "F", "R", "O", "M", " ", "r", "e", "a", "l", "m">>

\* the models and tables of the tests
Field(n, db, mode, v) == [name |-> n, db |-> db, dbMode |-> mode, dbInsertValue |-> v]

RealmModel ==
    <<Field(<<"U","U","I","D">>, <<"u","u","i","d">>, <<"i">>, ""),
      Field(<<"C","r","e","a","t","e","d","A","t">>, <<"c","r","e","a","t","e","d","_","a","t">>, <<"i">>, "NOW()"),
      Field(<<"N","a","m","e">>, <<"n","a","m","e">>, <<"i",",","u">>, "")>>

WebsiteModel ==
    <<Field(<<"U","U","I","D">>, <<"u","u","i","d">>, <<"i">>, ""),
      Field(<<"D","o","m","a","i","n">>, <<"d","o","m","a","i","n">>, <<"i",",","u">>, ""),
      Field(<<"R","e","a","l","m">>, <<"r">>, <<"l">>, ""),
      Field(<<"H","i","d","d","e","n">>, <<"-">>, <<>>, "")>>

Tables == {<<"r","e","a","l","m">>, <<"w","e","b","s","i","t","e">>}

Aliases == {<<>>, <<"r">>, <<"\"","r","\"">>}

\* the models of the tag parsing runs: two fields with any of these dbMode
\* tags
TagModels ==
    LET ModeTags == {
            <<>>, <<"i">>, <<"u">>, <<"i",",","u">>, <<"s">>, <<"i",",","s">>,
            <<"s",",","u">>, <<"i",",","u",",","s">>, <<"l">>, <<"l","i","n","k">>,
            <<"s",",","l">>}
    IN
    {<<Field(<<"U","U","I","D">>, <<"u","u","i","d">>, m1, ""),
       Field(<<"N","a","m","e">>, <<"n","a","m","e">>, m2, v)>> :
        m1 \in ModeTags, m2 \in ModeTags, v \in {"", "NOW()"}}

\* ================================================================ query compiler
\* filters.go.  A filter or a sort is a Go map: it is given here as the
\* sequence of its entries in the order the range loop visits them, which is
\* any order.  Texts are sequences of characters, the euro sign being one.
\* strings.IndexByte: the first position of c in s, 0 when there is none
IndexByte(s, c) ==
    IF \E i \in 1..Len(s) : s[i] = c
    THEN CHOOSE i \in 1..Len(s) : s[i] = c /\ \A j \in 1..(i - 1) : s[j] # c
    ELSE 0

\* strings.ToUpper that leaves the text as it is
ToUpper_Identity(s) == s

\* strings.ToUpper
ToUpper(s) ==
    [i \in 1..Len(s) |->
        IF \E k \in 1..Len(Lower) : Lower[k] = s[i]
        THEN Upper[CHOOSE k \in 1..Len(Lower) : Lower[k] = s[i]]
        ELSE s[i]]

\* fmt.Sprint of an int
Sprint(n) == IF n < 0 THEN <<"-">> \o Itoa(-n) ELSE Itoa(n)

\* fmt.Sprintf(format, n) for a format whose only verb is %d
Sprintf(format, n) ==
    IF \E i \in 1..(Len(format) - 1) : format[i] = "%" /\ format[i + 1] = "d"
    THEN LET i == CHOOSE i \in 1..(Len(format) - 1) :
                      /\ format[i] = "%" /\ format[i + 1] = "d"
                      /\ \A j \in 1..(i - 1) : ~(format[j] = "%" /\ format[j + 1] = "d")
         IN  SubSeq(format, 1, i - 1) \o Sprint(n) \o SubSeq(format, i + 2, Len(format))
    ELSE format

\* the map operatorConditions
operatorConditions ==
       (<<"$","p","r","e","f","i","x">> :> <<"L","I","K","E"," ","$","%","d">>)
    @@ (<<"€","p","r","e","f","i","x">> :> <<"L","I","K","E"," ","$","%","d">>)
    @@ (<<"$","s","u","f","f","i","x">> :> <<"L","I","K","E"," ","$","%","d">>)
    @@ (<<"€","s","u","f","f","i","x">> :> <<"L","I","K","E"," ","$","%","d">>)
    @@ (<<"$","l","i","k","e">> :> <<"L","I","K","E"," ","$","%","d">>)
    @@ (<<"€","l","i","k","e">> :> <<"L","I","K","E"," ","$","%","d">>)
    @@ (<<"$","g","t">> :> <<">"," ","$","%","d">>)
    @@ (<<"$","g","t","e">> :> <<">","="," ","$","%","d">>)
    @@ (<<"$","l","t">> :> <<"<"," ","$","%","d">>)
    @@ (<<"$","l","t","e">> :> <<"<","="," ","$","%","d">>)
    @@ (<<"$","n","e">> :> <<"!","="," ","$","%","d">>)
    @@ (<<"$","i","n">> :> <<"="," ","A","N","Y","(","$","%","d",")">>)
    @@ (<<"$","n","i","n">> :> <<"!","="," ","A","L","L","(","$","%","d",")">>)
    @@ (<<"$","e","q">> :> <<"="," ","$","%","d">>)
    @@ (<<"€","e","q">> :> <<"="," ","$","%","d">>)
    @@ (<<>> :> <<"="," ","$","%","d">>)

\* the texts separated by sep
RECURSIVE JoinTexts(_, _)
JoinTexts(texts, sep) ==
    IF Len(texts) = 0 THEN <<>>
    ELSE IF Len(texts) = 1 THEN texts[1]
    ELSE texts[1] \o sep \o JoinTexts(Tail(texts), sep)

\* argCounter++ without the increment
NextArg_Stuck(argCounter) == argCounter

\* argCounter++
NextArg(argCounter) == argCounter + 1

\* continue that also counts the entry it leaves out
Continue_Counts(argCounter) == argCounter + 1

\* continue: an entry whose field is not in dbTagMap takes no number
Continue(argCounter) == argCounter

RECURSIVE ConditionsFrom(_, _, _, _, _)
\* the range loop of constructConditions over the entries left.  A key is
\* cut into its field name and its operator; the slice expression of the
\* operator is out of range, and panics, when the key ends with its bracket
ConditionsFrom(quotedTable, filters, dbTagMap, argCounter, acc) ==
    IF filters = <<>> THEN acc
    ELSE LET e == Head(filters)
             bracketIdx == IndexByte(e.key, "[")
             k == IF bracketIdx > 0
                  THEN [fieldName |-> SubSeq(e.key, 1, bracketIdx - 1),
                        operator |-> SubSeq(e.key, bracketIdx + 1, Len(e.key) - 1),
                        panics |-> bracketIdx = Len(e.key)]
                  ELSE [fieldName |-> e.key, operator |-> <<>>, panics |-> FALSE]
         IN  IF k.panics THEN [acc EXCEPT !.panicked = TRUE]
             ELSE IF k.fieldName \notin DOMAIN dbTagMap
             THEN ConditionsFrom(quotedTable, Tail(filters), dbTagMap,
                                 Continue(argCounter), acc)
             ELSE LET dbField == dbTagMap[k.fieldName]
                      conditionStr == IF k.operator \in DOMAIN operatorConditions
                                      THEN operatorConditions[k.operator]
                                      ELSE operatorConditions[<<>>]
                      shouldLower == Len(k.operator) >= 1 /\ k.operator[1] = "€"
                      format == IF shouldLower
                                THEN <<"L","O","W","E","R","(">> \o quotedTable \o <<".">> \o dbField
                                     \o <<")", " ">> \o conditionStr
                                ELSE quotedTable \o <<".">> \o dbField \o <<" ">>
                                     \o conditionStr
                      filterValue == IF shouldLower /\ e.value.kind = "string"
                                     THEN [e.value EXCEPT !.v = ToLower(@)]
                                     ELSE e.value
                  IN  ConditionsFrom(quotedTable, Tail(filters), dbTagMap,
                          NextArg(argCounter),
                          [acc EXCEPT !.conditions = Append(@, Sprintf(format, argCounter)),
                                      !.args = Append(@, filterValue)])

\* constructConditions(t, filters, table) with the registry as it is
constructConditions(t, filters, table, cache, infos) ==
    LET none == [conditions |-> <<>>, args |-> <<>>, err |-> Nil, panicked |-> FALSE]
    IN  IF table \notin DOMAIN cache
        THEN [none EXCEPT !.err = NotInitialized(table)]
        ELSE ConditionsFrom(<<"\"">> \o t \o <<"\"">>, filters,
                            infos[cache[table]].dbTagMap, 1, none)

RECURSIVE SortFrom(_, _, _, _)
\* the range loop of FilterQuery over the sort entries left
SortFrom(quotedTable, sort, dbTagMap, acc) ==
    IF sort = <<>> THEN acc
    ELSE LET order == ToUpper(Head(sort).order)
             field == Head(sort).field
         IN  IF order # <<"A","S","C">> /\ order # <<"D","E","S","C">>
             THEN [acc EXCEPT !.err = New(<<"i","n","v","a","l","i","d"," ","s","o","r","t"," ","o","r","d","e","r",":"," ">> \o order)]
             ELSE SortFrom(quotedTable, Tail(sort), dbTagMap,
                      IF field \in DOMAIN dbTagMap
                      THEN [acc EXCEPT !.clauses =
                               Append(@, quotedTable \o <<".">> \o dbTagMap[field]
                                         \o <<" ">> \o order)]
                      ELSE acc)

\* FilterQuery with the registry as it is: what it returns, or that it panics
FilterQuery(baseQuery, t, filters, sort, table, perPage, page, cache, infos) ==
    LET c == constructConditions(t, filters, table, cache, infos)
        failed == [out |-> "error", conditions |-> <<>>, query |-> <<>>,
                   args |-> <<>>, err |-> c.err]
    IN  IF c.err # Nil THEN failed
        ELSE IF c.panicked THEN [failed EXCEPT !.out = "panic"]
        ELSE LET s == SortFrom(<<"\"">> \o t \o <<"\"">>, sort,
                               infos[cache[table]].dbTagMap,
                               [clauses |-> <<>>, err |-> Nil])
                 where == IF Len(c.conditions) > 0
                          THEN <<" ","W","H","E","R","E"," ">> \o JoinTexts(c.conditions, <<" ","A","N","D"," ">>)
                          ELSE <<>>
                 orderBy == IF Len(s.clauses) > 0
                            THEN <<" ","O","R","D","E","R"," ","B","Y"," ">> \o JoinTexts(s.clauses, <<",", " ">>)
                            ELSE <<>>
             IN  IF s.err # Nil THEN [failed EXCEPT !.err = s.err]
                 ELSE [out |-> "ok", conditions |-> c.conditions,
                       query |-> baseQuery \o where \o orderBy
                                 \o <<" ","L","I","M","I","T"," ">> \o Sprint(perPage)
                                 \o <<" ","O","F","F","S","E","T"," ">> \o Sprint((page - 1) * perPage),
                       args |-> c.args, err |-> Nil]

\* ---------------------------------------------------------------- registry: calls
\* calls made by one goroutine in a run
MaxCalls == 2

\* goroutine g is between two calls and makes another one
CanCall(g) ==
    /\ regs[g].pc \in {"idle", "done"}
    /\ regs[g].calls < MaxCalls

\* the call of goroutine g ends
Done(g, op, t, found, out, fields, names, e) ==
    [IdleReg EXCEPT !.pc = "done", !.calls = regs[g].calls + 1, !.op = op,
                    !.table = t, !.found = found,
                    !.out = out, !.fields = fields, !.names = names, !.err = e]

\* the modelInfo of a registered table
InfoOf(t) == modelInfos[modelFieldsCache[t]]

\* InitModelTagCache that builds and stores whatever the cache holds
InitModelTagCache_NoFastPath(g, model, t) ==
    /\ CanCall(g)
    /\ regs' = [regs EXCEPT ![g] =
           [IdleReg EXCEPT !.pc = "build", !.calls = regs[g].calls + 1,
                           !.op = "InitModelTagCache",
                           !.table = t, !.model = model,
                           !.found = t \in DOMAIN modelFieldsCache]]
    /\ UNCHANGED <<modelFieldsCache, modelInfos, nonRegVars>>

\* InitModelTagCache(model, tableName) up to the fast path: it returns when
\* the table is in the cache, and goes on to build the modelInfo otherwise
InitModelTagCache(g, model, t) ==
    /\ CanCall(g)
    /\ regs' = [regs EXCEPT ![g] =
           IF t \in DOMAIN modelFieldsCache
           THEN [Done(g, "InitModelTagCache", t, TRUE, "returned", <<>>, <<>>, Nil)
                    EXCEPT !.model = model]
           ELSE [IdleReg EXCEPT !.pc = "build", !.calls = regs[g].calls + 1,
                           !.op = "InitModelTagCache",
                                !.table = t, !.model = model]]
    /\ UNCHANGED <<modelFieldsCache, modelInfos, nonRegVars>>

\* the rest of InitModelTagCache: the modelInfo is built and stored with
\* modelFieldsCache.Set
StoreModelInfo(g) ==
    /\ regs[g].pc = "build"
    /\ modelInfos' = Append(modelInfos, BuildModelInfo(regs[g].model, regs[g].table))
    /\ modelFieldsCache' = (regs[g].table :> (Len(modelInfos) + 1)) @@ modelFieldsCache
    /\ regs' = [regs EXCEPT ![g].pc = "done", ![g].out = "returned"]
    /\ UNCHANGED nonRegVars

\* another goroutine is about to write, without a lock, into the alias maps
\* of the modelInfo at address a
Racing(g, a) ==
    \E h \in Goroutines \ {g} : regs[h].pc \in {"w1", "w2"} /\ regs[h].info = a

\* GetSelectFields(tableName, aliasTableName) up to its return from the alias
\* cache or, on a miss, up to the computed lists.  A map access that races
\* with a write can also end the program (fatal error: concurrent map access)
GetSelectFields(g, t, alias, crash) ==
    /\ CanCall(g)
    /\ crash => (t \in DOMAIN modelFieldsCache /\ Racing(g, modelFieldsCache[t]))
    /\ regs' = [regs EXCEPT ![g] =
           IF t \notin DOMAIN modelFieldsCache
           THEN Done(g, "GetSelectFields", t, FALSE, "panic", <<>>, <<>>, NotInitialized(t))
           ELSE LET a == modelFieldsCache[t]
                    info == modelInfos[a]
                    c == computeFieldsByModeInternal(info.dbFieldsSelect,
                                                     info.quotedTableName, alias)
                    r == [Done(g, "GetSelectFields", t, TRUE, "returned", <<>>, <<>>, Nil)
                             EXCEPT !.alias = alias, !.info = a]
                IN  IF crash THEN [r EXCEPT !.out = "fatal"]
                    ELSE IF alias \in DOMAIN info.selectFieldsCache
                    THEN [r EXCEPT !.fields = info.selectFieldsCache[alias],
                                   !.names = IF alias \in DOMAIN info.selectFieldNamesCache
                                             THEN info.selectFieldNamesCache[alias]
                                             ELSE <<>>]
                    ELSE [r EXCEPT !.pc = "w1", !.out = "none",
                                   !.fields = c.fields, !.names = c.names]]
    /\ UNCHANGED <<modelFieldsCache, modelInfos, nonRegVars>>

\* modelInfo.selectFieldsCache[aliasTableName] = fields
StoreSelectFields(g, crash) ==
    /\ regs[g].pc = "w1"
    /\ crash => Racing(g, regs[g].info)
    /\ IF crash
       THEN /\ regs' = [regs EXCEPT ![g].pc = "done", ![g].out = "fatal",
                                    ![g].fields = <<>>, ![g].names = <<>>]
            /\ UNCHANGED modelInfos
       ELSE /\ modelInfos' = [modelInfos EXCEPT ![regs[g].info].selectFieldsCache =
                                  (regs[g].alias :> regs[g].fields) @@ @]
            /\ regs' = [regs EXCEPT ![g].pc = "w2"]
    /\ UNCHANGED <<modelFieldsCache, nonRegVars>>

\* modelInfo.selectFieldNamesCache[aliasTableName] = fieldNames, and the return
StoreSelectFieldNames(g, crash) ==
    /\ regs[g].pc = "w2"
    /\ crash => Racing(g, regs[g].info)
    /\ IF crash
       THEN /\ regs' = [regs EXCEPT ![g].pc = "done", ![g].out = "fatal",
                                    ![g].fields = <<>>, ![g].names = <<>>]
            /\ UNCHANGED modelInfos
       ELSE /\ modelInfos' = [modelInfos EXCEPT ![regs[g].info].selectFieldNamesCache =
                                  (regs[g].alias :> regs[g].names) @@ @]
            /\ regs' = [regs EXCEPT ![g].pc = "done", ![g].out = "returned"]
    /\ UNCHANGED <<modelFieldsCache, nonRegVars>>

\* an accessor of precomputed values: it panics for a table that is not in
\* the cache and returns what the modelInfo holds otherwise, the insert or
\* the update columns with their names, or the map dbInsertValueMap
Accessor(g, op, t) ==
    /\ CanCall(g)
    /\ regs' = [regs EXCEPT ![g] =
           IF t \notin DOMAIN modelFieldsCache
           THEN Done(g, op, t, FALSE, "panic", <<>>, <<>>, NotInitialized(t))
           ELSE LET i == InfoOf(t)
                    fields == CASE op = "GetInsertFields" -> i.insertFieldsCache.fields
                                [] op = "GetUpdateFields" -> i.updateFieldsCache.fields
                                [] OTHER -> i.dbInsertValueMap
                    names == CASE op = "GetInsertFields" -> i.insertFieldsCache.names
                               [] op = "GetUpdateFields" -> i.updateFieldsCache.names
                               [] OTHER -> <<>>
                IN  [Done(g, op, t, TRUE, "returned", fields, names, Nil)
                        EXCEPT !.info = modelFieldsCache[t]]]
    /\ UNCHANGED <<modelFieldsCache, modelInfos, nonRegVars>>

\* GetInsertFields that answers with empty lists for an unknown table
GetInsertFields_Lenient(g, t) ==
    /\ CanCall(g)
    /\ regs' = [regs EXCEPT ![g] =
           IF t \notin DOMAIN modelFieldsCache
           THEN Done(g, "GetInsertFields", t, FALSE, "returned", <<>>, <<>>, Nil)
           ELSE Done(g, "GetInsertFields", t, TRUE, "returned",
                     InfoOf(t).insertFieldsCache.fields,
                     InfoOf(t).insertFieldsCache.names, Nil)]
    /\ UNCHANGED <<modelFieldsCache, modelInfos, nonRegVars>>

GetInsertFields(g, t) == Accessor(g, "GetInsertFields", t)

GetUpdateFields(g, t) == Accessor(g, "GetUpdateFields", t)

GetInsertValues(g, t) == Accessor(g, "GetInsertValues", t)

\* the query compiler is called for table t with a filter on Name:
\* FilterQuery(realmBaseQuery, t, filters, nil, t, 10, 1)
CompileFilter(g, t) ==
    /\ CanCall(g)
    /\ LET filters == <<[key |-> <<"N","a","m","e">>,
                         value |-> [kind |-> "string",
                                    v |-> <<"M","o","d","e","l"," ","A">>]]>>
           r == FilterQuery(realmBaseQuery, t, filters, <<>>, t, 10, 1,
                            modelFieldsCache, modelInfos)
       IN  regs' = [regs EXCEPT ![g] =
               Done(g, "FilterQuery", t, t \in DOMAIN modelFieldsCache,
                    IF r.out = "ok" THEN "returned" ELSE r.out, r.query, r.args, r.err)]
    /\ UNCHANGED <<modelFieldsCache, modelInfos, nonRegVars>>

RegNext ==
    \/ \E g \in Goroutines, model \in {RealmModel, WebsiteModel}, t \in Tables : InitModelTagCache(g, model, t)
    \/ \E g \in Goroutines : StoreModelInfo(g)
    \/ \E g \in Goroutines, t \in Tables, alias \in Aliases, crash \in BOOLEAN :
           GetSelectFields(g, t, alias, crash)
    \/ \E g \in Goroutines, crash \in BOOLEAN : StoreSelectFields(g, crash)
    \/ \E g \in Goroutines, crash \in BOOLEAN : StoreSelectFieldNames(g, crash)
    \/ \E g \in Goroutines, t \in Tables : GetInsertFields(g, t)
    \/ \E g \in Goroutines, t \in Tables : GetUpdateFields(g, t)
    \/ \E g \in Goroutines, t \in Tables : GetInsertValues(g, t)
    \/ \E g \in Goroutines, t \in Tables : CompileFilter(g, t)

RegSpec == Init /\ [][RegNext]_vars

\* ---------------------------------------------------------------- tag parsing runs
\* one goroutine registers one table with a model of any dbMode tags
TagNext ==
    \/ \E model \in TagModels : InitModelTagCache("g1", model, <<"r","e","a","l","m">>)
    \/ StoreModelInfo("g1")

TagSpec == Init /\ [][TagNext]_vars

\* ---------------------------------------------------------------- compiler runs
\* filter entries of one call
MaxFilters == 3

\* the entries a Filter map is made of, the value being a string, an array
\* of strings or a number: plain and bracketed keys, operators
\* with and without the lower-casing prefix, array operators, a field the
\* model does not have, an operator the map does not have, a key cut after
\* its bracket
FilterEntries == {
    [key |-> <<"N", "a", "m", "e">>, value |-> [kind |-> "string", v |-> <<"M", "o", "d", "e", "l", " ", "A">>]],
    [key |-> <<"N", "a", "m", "e", "[", "$", "l", "i", "k", "e", "]">>, value |-> [kind |-> "string", v |-> <<"%", "A", "%">>]],
    [key |-> <<"N", "a", "m", "e", "[", "€", "l", "i", "k", "e", "]">>, value |-> [kind |-> "string", v |-> <<"%", "A", "%">>]],
    [key |-> <<"U", "U", "I", "D", "[", "$", "i", "n", "]">>, value |-> [kind |-> "array", v |-> <<<<"u", "1">>, <<"u", "2">>>>]],
    [key |-> <<"U", "U", "I", "D", "[", "$", "n", "i", "n", "]">>, value |-> [kind |-> "array", v |-> <<<<"u", "3">>>>]],
    [key |-> <<"M", "i", "s", "s", "i", "n", "g", "[", "$", "g", "t", "]">>, value |-> [kind |-> "int", v |-> 3]],
    [key |-> <<"N", "a", "m", "e", "[", "$", "r", "e", "g", "e", "x", "]">>, value |-> [kind |-> "string", v |-> <<"^", "M">>]],
    [key |-> <<"N", "a", "m", "e", "[">>, value |-> [kind |-> "string", v |-> <<"x">>]]}

\* Filter maps in every order a range loop can visit them
FilterInputs ==
    {f \in UNION {[1..n -> FilterEntries] : n \in 0..MaxFilters} :
        \A i, j \in 1..Len(f) : i # j => f[i].key # f[j].key}

\* Sort maps in a visiting order: none, a valid one, one with a bad order,
\* one on an unknown field, and pairs of these
SortInputs == {
    <<>>,
    <<[field |-> <<"N", "a", "m", "e">>, order |-> <<"a", "s", "c">>]>>,
    <<[field |-> <<"N", "a", "m", "e">>, order |-> <<"s", "i", "d", "e", "w", "a", "y", "s">>]>>,
    <<[field |-> <<"M", "i", "s", "s", "i", "n", "g">>, order |-> <<"D", "E", "S", "C">>]>>,
    <<[field |-> <<"M", "i", "s", "s", "i", "n", "g">>, order |-> <<"s", "i", "d", "e", "w", "a", "y", "s">>]>>,
    <<[field |-> <<"N", "a", "m", "e">>, order |-> <<"a", "s", "c">>], [field |-> <<"M", "i", "s", "s", "i", "n", "g">>, order |-> <<"D", "E", "S", "C">>]>>,
    <<[field |-> <<"M", "i", "s", "s", "i", "n", "g">>, order |-> <<"d", "e", "s", "c">>], [field |-> <<"U", "U", "I", "D">>, order |-> <<"D", "e", "s", "c">>]>>,
    <<[field |-> <<"U", "U", "I", "D">>, order |-> <<"D", "e", "s", "c">>], [field |-> <<"N", "a", "m", "e">>, order |-> <<"a", "s", "c">>]>>,
    <<[field |-> <<"N", "a", "m", "e">>, order |-> <<"a", "s", "c">>], [field |-> <<"U", "U", "I", "D">>, order |-> <<"s", "i", "d", "e", "w", "a", "y", "s">>]>>,
    <<[field |-> <<"U", "U", "I", "D">>, order |-> <<"u", "p">>], [field |-> <<"N", "a", "m", "e">>, order |-> <<"A", "S", "C">>]>>}

\* the registry holds realm; a call of FilterQuery is about to be made, on
\* the base query of the tests as it is, with a WHERE clause, or with a WHERE
\* clause over a subquery that has a LIMIT of its own
FqInit ==
    /\ TxIdle
    /\ ScanIdle
    /\ modelFieldsCache = (<<"r", "e", "a", "l", "m">> :> 1)
    /\ modelInfos = <<BuildModelInfo(RealmModel, <<"r", "e", "a", "l", "m">>)>>
    /\ regs = [g \in Goroutines |-> IdleReg]
    /\ OpIdle
    /\ \E filters \in FilterInputs, sort \in SortInputs, table \in Tables,
          p \in {<<10, 1>>, <<20, 3>>},
          where \in {<<>>, <<" ", "W", "H", "E", "R", "E", " ", "n", "a", "m", "e", " ", "I", "S", " ", "N", "O", "T", " ", "N", "U", "L", "L">>,
                     <<" ", "W", "H", "E", "R", "E", " ", "u", "u", "i", "d", " ", "I", "N", " ", "(", "S", "E", "L", "E", "C", "T", " ", "u", "u", "i", "d", " ", "F", "R", "O", "M", " ", "r", "e", "a", "l", "m", " ", "L", "I", "M", "I", "T", " ", "5", ")">>} :
           fq = [NoCall EXCEPT !.baseQuery = realmBaseQuery \o where, !.t = <<"r", "e", "a", "l", "m">>,
                               !.filters = filters, !.sort = sort, !.table = table,
                               !.perPage = p[1], !.page = p[2]]

\* FilterQuery(baseQuery, t, filters, sort, table, perPage, page)
FilterQueryCall ==
    /\ fq.out = "none"
    /\ LET r == FilterQuery(fq.baseQuery, fq.t, fq.filters, fq.sort, fq.table,
                            fq.perPage, fq.page, modelFieldsCache, modelInfos)
       IN  fq' = [fq EXCEPT !.out = r.out, !.conditions = r.conditions,
                            !.query = r.query, !.args = r.args, !.err = r.err]
    /\ UNCHANGED <<txVars, scanVars, regVars, opVars>>

\* strings.Index(strings.ToUpper(s), strings.ToUpper(substr)): the offset of
\* the first occurrence, -1 when there is none
indexCaseInsensitive(s, substr) ==
    LET S == ToUpper(s)
        U == ToUpper(substr)
        at == {i \in 0..(Len(S) - Len(U)) : SubSeq(S, i + 1, i + Len(U)) = U}
    IN  IF at = {} THEN -1 ELSE CHOOSE i \in at : \A j \in at : i <= j

\* BuildFilterCount that cuts when the index is not negative
BuildFilterCount_FromZero(baseQuery) ==
    LET cut(q, clause) == LET index == indexCaseInsensitive(q, clause)
                          IN  IF index >= 0 THEN SubSeq(q, 1, index) ELSE q
    IN  <<"S", "E", "L", "E", "C", "T", " ", "C", "O", "U", "N", "T", "(", "*", ")", " ", "F", "R", "O", "M", " ", "(">>
        \o cut(cut(cut(baseQuery, <<" ", "L", "I", "M", "I", "T", " ">>), <<" ", "O", "F", "F", "S", "E", "T", " ">>), <<" ", "O", "R", "D", "E", "R", " ", "B", "Y", " ">>)
        \o <<")", " ", "A", "S", " ", "c", "o", "u", "n", "t", "_", "s", "u", "b", "q", "u", "e", "r", "y">>

\* BuildFilterCount(baseQuery): the query is cut at " LIMIT ", then at
\* " OFFSET ", then at " ORDER BY ", each time when the index is above zero
BuildFilterCount(baseQuery) ==
    LET cut(q, clause) == LET index == indexCaseInsensitive(q, clause)
                          IN  IF index > 0 THEN SubSeq(q, 1, index) ELSE q
    IN  <<"S", "E", "L", "E", "C", "T", " ", "C", "O", "U", "N", "T", "(", "*", ")", " ", "F", "R", "O", "M", " ", "(">>
        \o cut(cut(cut(baseQuery, <<" ", "L", "I", "M", "I", "T", " ">>), <<" ", "O", "F", "F", "S", "E", "T", " ">>), <<" ", "O", "R", "D", "E", "R", " ", "B", "Y", " ">>)
        \o <<")", " ", "A", "S", " ", "c", "o", "u", "n", "t", "_", "s", "u", "b", "q", "u", "e", "r", "y">>

\* countQuery := BuildFilterCount(query) on the query a call has returned
BuildFilterCountCall ==
    /\ fq.out = "ok"
    /\ ~fq.counted
    /\ fq' = [fq EXCEPT !.counted = TRUE, !.count = BuildFilterCount(fq.query)]
    /\ UNCHANGED <<txVars, scanVars, regVars, opVars>>

FilterSpec == FqInit /\ [][FilterQueryCall \/ BuildFilterCountCall]_vars

\* ---------------------------------------------------------------- count runs
\* the queries BuildFilterCount is given: a select in either case, with a
\* subquery in its condition, over a subquery that is ordered and limited,
\* or no select at all, followed by the clauses a paginated query ends with,
\* in several orders and cases
CountInputs ==
    LET heads == {
            <<>>,
            <<"S", "E", "L", "E", "C", "T", " ", "a", " ", "F", "R", "O", "M", " ", "t", " ", "W", "H", "E", "R", "E", " ", "b", " ", "=", " ", "$", "1">>,
            <<"s", "e", "l", "e", "c", "t", " ", "a", " ", "f", "r", "o", "m", " ", "t", " ", "w", "h", "e", "r", "e", " ", "b", " ", "=", " ", "$", "1">>,
            <<"S", "E", "L", "E", "C", "T", " ", "a", " ", "F", "R", "O", "M", " ", "t", " ", "W", "H", "E", "R", "E", " ", "b", " ", "I", "N", " ", "(", "S", "E", "L", "E", "C", "T", " ", "b", " ", "F", "R", "O", "M", " ", "u", " ", "W", "H", "E", "R", "E", " ", "c", " ", "=", " ", "$", "1", ")">>,
            <<"S", "E", "L", "E", "C", "T", " ", "a", " ", "F", "R", "O", "M", " ", "(", "S", "E", "L", "E", "C", "T", " ", "a", " ", "F", "R", "O", "M", " ", "u", " ", "O", "R", "D", "E", "R", " ", "B", "Y", " ", "c", " ", "L", "I", "M", "I", "T", " ", "5", ")", " ", "A", "S", " ", "s", " ", "W", "H", "E", "R", "E", " ", "b", " ", "=", " ", "$", "1">>,
            <<"S", "E", "L", "E", "C", "T", " ", "a", " ", "F", "R", "O", "M", " ", "t", " ", "W", "H", "E", "R", "E", " ", "b", " ", "I", "N", " ", "(", "S", "E", "L", "E", "C", "T", " ", "b", " ", "F", "R", "O", "M", " ", "u", " ", "L", "I", "M", "I", "T", " ", "5", " ", "O", "F", "F", "S", "E", "T", " ", "1", ")">>}
        tails == {
            <<>>,
            <<" ", "L", "I", "M", "I", "T", " ", "1", "0", " ", "O", "F", "F", "S", "E", "T", " ", "0">>,
            <<" ", "O", "R", "D", "E", "R", " ", "B", "Y", " ", "a", " ", "A", "S", "C", " ", "L", "I", "M", "I", "T", " ", "1", "0", " ", "O", "F", "F", "S", "E", "T", " ", "0">>,
            <<" ", "o", "r", "d", "e", "r", " ", "b", "y", " ", "a", " ", "l", "i", "m", "i", "t", " ", "5">>,
            <<" ", "O", "F", "F", "S", "E", "T", " ", "5", " ", "L", "I", "M", "I", "T", " ", "2">>,
            <<" ", "O", "R", "D", "E", "R", " ", "B", "Y", " ", "a">>,
            <<" ", "L", "i", "m", "i", "t", " ", "1">>,
            <<" ", "O", "F", "F", "S", "E", "T", " ", "3">>,
            <<" ", "O", "R", "D", "E", "R", " ", "B", "Y", " ", "a", " ", "O", "F", "F", "S", "E", "T", " ", "3">>,
            <<" ", "O", "R", "D", "E", "R", " ", "B", "Y", " ", "(", "S", "E", "L", "E", "C", "T", " ", "m", "a", "x", "(", "c", ")", " ", "F", "R", "O", "M", " ", "u", ")", " ", "D", "E", "S", "C", " ", "L", "I", "M", "I", "T", " ", "1">>,
            <<" ", "O", "R", "D", "E", "R", " ", "B", "Y", " ", "a", ",", " ", "b", " ", "D", "E", "S", "C">>,
            <<" ", "L", "I", "M", "I", "T", " ", "5", " ", "O", "R", "D", "E", "R", " ", "B", "Y", " ", "a">>}
    IN  {h \o t : h \in heads, t \in tails}

\* a query, as if a call had returned it, is about to be counted
CountInit ==
    /\ TxIdle
    /\ ScanIdle
    /\ RegIdle
    /\ OpIdle
    /\ \E q \in CountInputs : fq = [NoCall EXCEPT !.out = "ok", !.query = q]

CountSpec == CountInit /\ [][BuildFilterCountCall]_vars

\* ================================================================ ExecuteWithRetry
\* filters.go.  The statement goes to DB.Exec, outside any transaction;
\* DB.Exec answers nil or an error, and log keeps the answer to each
\* statement issued by the call.
\* ExecuteWithRetry(query, args...) up to the first DB.Exec
ExecuteWithRetryCall ==
    /\ retry.pc = "idle"
    /\ \E q \in {<<"U", "P", "D", "A", "T", "E", " ", "r", "e", "a", "l", "m", " ", "S", "E", "T", " ", "n", "a", "m", "e", " ", "=", " ", "$", "1">>, <<"I", "N", "S", "E", "R", "T", " ", "I", "N", "T", "O", " ", "r", "e", "a", "l", "m", " ", "(", "n", "a", "m", "e", ")", " ", "V", "A", "L", "U", "E", "S", " ", "(", "$", "1", ")">>} :
           retry' = [retry EXCEPT !.pc = "exec", !.query = q, !.i = 0]
    /\ UNCHANGED <<txVars, scanVars, regVars, fqVars, batch, qb>>

\* one pass of the loop: DB.Exec answers e; on an error the call keeps it in
\* lastErr, sleeps 100ms << i and goes on with the next i, whatever the
\* error is; after maxRetries passes it returns the last error, wrapped
ExecuteWithRetryPass(e) ==
    /\ retry.pc = "exec"
    /\ LET maxTries == 3  \* maxRetries := 3
           i == retry.i + 1
       IN  retry' =
               IF e = Nil
               THEN [retry EXCEPT !.log = Append(@, e), !.pc = "returned", !.result = Nil]
               ELSE [retry EXCEPT
                        !.log = Append(@, e),
                        !.lastErr = e,
                        !.slept = @ + Shl(retry.i) * 100 * Millisecond,
                        !.i = i,
                        !.pc = IF i < maxTries THEN "exec" ELSE "returned",
                        !.result = IF i < maxTries THEN Nil
                                   ELSE Wrapf(<<"m", "a", "x", " ", "r", "e", "t", "r", "i", "e", "s", " ", "e", "x", "c", "e", "e", "d", "e", "d", ":", " ">>, e)]
    /\ UNCHANGED <<txVars, scanVars, regVars, fqVars, batch, qb>>

ExecSpec ==
    Init /\ [][ExecuteWithRetryCall
               \/ \E e \in {Nil} \cup BodyErrors : ExecuteWithRetryPass(e)]_vars

\* ================================================================ batch executor
\* batch.go.  The body of WithTx fills a BatchInsertExecutor and flushes it
\* through the handle it was given.  A row is a number; a row written by
\* DB.Exec, outside any transaction, is in visible at once, tagged 0.
\* const BatchSize
BatchSize == 100

\* rows the body adds one by one
MaxAdds == 3

\* Add, that is addMap or addObject: the row is appended, and a batch that
\* has reached batchSize is flushed by Flush, which is FlushContext: DB.Exec
\* and then valuesBatch = valuesBatch[:0]
Add(b, V, r) ==
    LET rows == Append(b.valuesBatch, r)
    IN  IF Len(rows) >= b.batchSize
        THEN [batch |-> [b EXCEPT !.valuesBatch = <<>>, !.added = @ + 1],
              visible |-> V \cup {<<0, rows[i]>> : i \in 1..Len(rows)}]
        ELSE [batch |-> [b EXCEPT !.valuesBatch = rows, !.added = @ + 1],
              visible |-> V]

\* FlushWithTxContext: nothing for an empty batch, else tx.ExecContext and
\* then valuesBatch = valuesBatch[:0]; a closed transaction takes nothing
\* and the batch is kept
FlushWithTxContext(b, h, T) ==
    IF Len(b.valuesBatch) = 0 \/ Closed(T, h)
    THEN [batch |-> b, txs |-> T]
    ELSE [batch |-> [b EXCEPT !.valuesBatch = <<>>, !.flushed = TRUE],
          txs |-> [T EXCEPT ![h].writes =
                      @ \cup {b.valuesBatch[i] : i \in 1..Len(b.valuesBatch)}]]

\* the body makes its executor: NewBatchInsert(tableName, fields, n)
NewBatchInsert(n) ==
    /\ pc = "body" /\ call = "WithTx"
    /\ ~batch.made
    /\ batch' = [NoBatch EXCEPT !.made = TRUE,
                                !.batchSize = IF n <= 0 THEN BatchSize ELSE n]
    /\ UNCHANGED <<txVars, scanVars, regVars, fqVars, retry, qb>>

\* the body adds a row: batch.Add(values)
BatchAdd ==
    /\ pc = "body" /\ call = "WithTx"
    /\ batch.made /\ ~batch.local /\ batch.added < MaxAdds
    /\ LET a == Add(batch, visible, batch.added + 1)
       IN  /\ batch' = a.batch
           /\ visible' = a.visible
    /\ UNCHANGED <<pc, call, txs, hTx, maxRetries, attempt, err, result, bodyCalls, log,
                   backoff, waits, slept, ctxDone, last, ops, clsText, verdict>>
    /\ UNCHANGED <<scanVars, regVars, fqVars, retry, qb>>

\* the body flushes what is left: batch.FlushWithTx(tx)
FlushWithTx ==
    /\ pc = "body" /\ call = "WithTx"
    /\ batch.made /\ ~batch.local
    /\ LET f == FlushWithTxContext(batch, hTx, txs)
       IN  /\ batch' = f.batch
           /\ txs' = f.txs
    /\ UNCHANGED <<pc, call, visible, hTx, maxRetries, attempt, err, result, bodyCalls,
                   log, backoff, waits, slept, ctxDone, last, ops, clsText, verdict>>
    /\ UNCHANGED <<scanVars, regVars, fqVars, retry, qb>>

\* the loop of InsertBatchWithTx over n objects, from an empty executor: Add
\* for each, so that every run of batchSize rows is flushed by Add as soon as
\* it is complete and the rows after the last full run are left in the batch
AddAll(b, V, n) ==
    LET full == n - (n % b.batchSize)
    IN  [batch |-> [b EXCEPT !.valuesBatch = [i \in 1..(n - full) |-> full + i],
                             !.added = n],
         visible |-> V \cup {<<0, r>> : r \in 1..full}]

\* the body calls InsertBatchWithTx(ctx, tx, objects, tableName) with a
\* slice of n objects: an executor of its own of BatchSize rows, Add for
\* each object, then FlushWithTxContext
InsertBatchWithTx(n) ==
    /\ pc = "body" /\ call = "WithTx"
    /\ ~batch.made
    /\ hTx # 0
    /\ IF n = 0
       THEN /\ batch' = [NoBatch EXCEPT !.made = TRUE, !.local = TRUE]
            /\ UNCHANGED <<txs, visible>>
       ELSE LET a == AddAll([NoBatch EXCEPT !.made = TRUE, !.local = TRUE,
                                            !.batchSize = BatchSize],
                            visible, n)
                f == FlushWithTxContext(a.batch, hTx, txs)
            IN  /\ batch' = f.batch
                /\ visible' = a.visible
                /\ txs' = f.txs
    /\ UNCHANGED <<pc, call, hTx, maxRetries, attempt, err, result, bodyCalls,
                   log, backoff, waits, slept, ctxDone, last, ops, clsText, verdict>>
    /\ UNCHANGED <<scanVars, regVars, fqVars, retry, qb>>

\* WithTx whose body inserts through a batch executor and then returns
BatchNext ==
    \/ WithTx
    \/ \E n \in {0, 2, 3} : NewBatchInsert(n)
    \/ BatchAdd
    \/ FlushWithTx
    \/ \E n \in {0, 1, BatchSize - 1, BatchSize, BatchSize + 1} : InsertBatchWithTx(n)
    \/ \E o \in Outcomes, rn \in RandSamples : FnReturns(o, rn)

BatchSpec == Init /\ [][BatchNext]_vars

\* ================================================================ object statements
\* unnamed/part_005 (tx_orm.go).  The object is given by the value of each
\* field of its struct, in the order of the struct; the statement and its
\* arguments are what the function hands to tx.ExecContext.
RECURSIVE WhereFrom(_, _, _, _)
\* the loop over whereArgs from index i on (0-based, as in the source):
\* strings.Replace(whereClause, "$i+1", "$paramOffset+i+1", 1), the first
\* occurrence of the text and no other
WhereFrom(whereClause, i, n, paramOffset) ==
    IF i >= n THEN whereClause
    ELSE LET old == <<"$">> \o Itoa(i + 1)
             new == <<"$">> \o Itoa(paramOffset + i + 1)
             at == {p \in 1..(Len(whereClause) - Len(old) + 1) :
                       SubSeq(whereClause, p, p + Len(old) - 1) = old}
             p == CHOOSE p \in at : \A o \in at : p <= o
         IN  WhereFrom(IF at = {} THEN whereClause
                       ELSE SubSeq(whereClause, 1, p - 1) \o new
                            \o SubSeq(whereClause, p + Len(old), Len(whereClause)),
                       i + 1, n, paramOffset)

\* UpdateObjectWithTxContext(ctx, tx, object, tableName, whereClause,
\* whereArgs...).  tagCache.Fields holds the fields whose db tag is neither
\* empty nor "-" (InitModelTagCacheForType); the value of the i-th of them is
\* read with val.Field(i)
UpdateObjectWithTxContext(model, object, tableName, whereClause, whereArgs) ==
    LET Fields == SelectSeq(model, LAMBDA f : f.db # <<>> /\ f.db # <<"-">>)
        upd == SelectSeq([i \in 1..Len(Fields) |-> i],
                         LAMBDA i : Contains(Fields[i].dbMode, <<"u">>))
        setClause == [j \in 1..Len(upd) |->
                         Fields[upd[j]].db \o <<" ", "=", " ", "$">> \o Itoa(j)]
        values == [j \in 1..Len(upd) |-> object[upd[j]]]
    IN  IF Len(setClause) = 0
        THEN [out |-> "error", query |-> <<>>, args |-> <<>>]
        ELSE [out |-> "ok",
              query |-> <<"U", "P", "D", "A", "T", "E", " ", "\"">> \o tableName \o <<"\"", " ", "S", "E", "T", " ">> \o JoinTexts(setClause, <<",", " ">>)
                        \o <<" ", "W", "H", "E", "R", "E", " ">>
                        \o WhereFrom(whereClause, 0, Len(whereArgs), Len(values)),
              args |-> values \o whereArgs]

\* the where clauses of the callers and their arguments: none, one, two in
\* either order, three, and one placeholder written twice
WhereInputs == {
    [clause |-> <<"d", "e", "l", "e", "t", "e", "d", "_", "a", "t", " ", "I", "S", " ", "N", "U", "L", "L">>, args |-> <<>>],
    [clause |-> <<"u", "u", "i", "d", " ", "=", " ", "$", "1">>, args |-> <<"w1">>],
    [clause |-> <<"u", "u", "i", "d", " ", "=", " ", "$", "1", " ", "A", "N", "D", " ", "n", "a", "m", "e", " ", "=", " ", "$", "2">>, args |-> <<"w1", "w2">>],
    [clause |-> <<"n", "a", "m", "e", " ", "=", " ", "$", "2", " ", "A", "N", "D", " ", "u", "u", "i", "d", " ", "=", " ", "$", "1">>, args |-> <<"w1", "w2">>],
    [clause |-> <<"u", "u", "i", "d", " ", "=", " ", "$", "1", " ", "A", "N", "D", " ", "n", "a", "m", "e", " ", "=", " ", "$", "2", " ", "A", "N", "D", " ", "r", "e", "a", "l", "m", " ", "=", " ", "$", "3">>, args |-> <<"w1", "w2", "w3">>],
    [clause |-> <<"u", "u", "i", "d", " ", "=", " ", "$", "1", " ", "O", "R", " ", "p", "a", "r", "e", "n", "t", " ", "=", " ", "$", "1">>, args |-> <<"w1">>]}

\* a call of UpdateObjectWithTx is about to be made, on an object of one of
\* the models of the tests or of the tag parsing runs
UpdateInit ==
    /\ TxIdle
    /\ ScanIdle
    /\ RegIdle
    /\ FqIdle
    /\ retry = NoRetry
    /\ batch = NoBatch
    /\ \E m \in {RealmModel, WebsiteModel} \cup {t \in TagModels : t[2].dbInsertValue = ""},
          w \in WhereInputs, table \in Tables :
           qb = [NoBuild EXCEPT !.op = "UpdateObjectWithTx", !.model = m,
                                !.table = table,
                                !.whereClause = w.clause, !.whereArgs = w.args]

\* UpdateObjectWithTx(tx, object, tableName, whereClause, whereArgs...)
UpdateObjectWithTx ==
    /\ qb.op = "UpdateObjectWithTx"
    /\ qb.out = "none"
    /\ LET object == [i \in 1..Len(qb.model) |-> [of |-> qb.model[i].name]]
           r == UpdateObjectWithTxContext(qb.model, object, qb.table,
                                          qb.whereClause, qb.whereArgs)
       IN  qb' = [qb EXCEPT !.out = r.out, !.query = r.query, !.args = r.args]
    /\ UNCHANGED <<txVars, scanVars, regVars, fqVars, retry, batch>>

UpdateSpec == UpdateInit /\ [][UpdateObjectWithTx]_vars

\* ================================================================ statement builders
\* unnamed/part_009.  A values map is a function from column names to
\* values; a value tells whether isJSONBType holds of it, and such a value is
\* bound as the text of its JSON.  info is the modelInfo of the table.
\* GetInsertQuery(tableName, valuesMap, returning)
GetInsertQuery(info, tableName, valuesMap, returning) ==
    LET fields == info.insertFieldsCache.names
        defaultValues == info.dbInsertValueMap
        text(defVal) == CASE defVal = "NOW()" -> <<"N", "O", "W", "(", ")">>
                          [] defVal = "NULL" -> <<"N", "U", "L", "L">>
                          [] defVal = "true" -> <<"t", "r", "u", "e">>
                          [] defVal = "false" -> <<"f", "a", "l", "s", "e">>
                          [] defVal = "DEFAULT" -> <<"D", "E", "F", "A", "U", "L", "T">>
                          [] OTHER -> <<>>
        RECURSIVE Loop(_, _, _, _)
        Loop(i, counter, placeholders, queryValues) ==
            IF i > Len(fields) THEN [placeholders |-> placeholders, queryValues |-> queryValues]
            ELSE LET field == fields[i]
                 IN  IF field \in DOMAIN valuesMap
                     THEN LET val == valuesMap[field]
                          IN  IF val.kind = "jsonb"
                              THEN Loop(i + 1, counter + 1,
                                        Append(placeholders, <<"$">> \o Itoa(counter) \o <<":", ":", "j", "s", "o", "n", "b">>),
                                        Append(queryValues, [val EXCEPT !.kind = "json"]))
                              ELSE Loop(i + 1, counter + 1,
                                        Append(placeholders, <<"$">> \o Itoa(counter)),
                                        Append(queryValues, val))
                     ELSE IF field \in DOMAIN defaultValues
                     THEN LET defVal == defaultValues[field]
                          IN  IF defVal \in {"NOW()", "NULL", "true", "false", "DEFAULT"}
                              THEN Loop(i + 1, counter, Append(placeholders, text(defVal)),
                                        queryValues)
                              ELSE Loop(i + 1, counter + 1,
                                        Append(placeholders, <<"$">> \o Itoa(counter)),
                                        Append(queryValues, [kind |-> "default", of |-> defVal]))
                     ELSE Loop(i + 1, counter, placeholders, queryValues)
        l == Loop(1, 1, <<>>, <<>>)
        query == <<"I", "N", "S", "E", "R", "T", " ", "I", "N", "T", "O", " ", "\"">> \o tableName \o <<"\"", " ", "(">> \o JoinTexts(fields, <<",">>)
                 \o <<")", " ", "V", "A", "L", "U", "E", "S", " ", "(">> \o JoinTexts(l.placeholders, <<",">>) \o <<")">>
    IN  [out |-> "ok",
         query |-> IF Len(returning) > 0
                   THEN query \o <<" ", "R", "E", "T", "U", "R", "N", "I", "N", "G", " ", "\"">> \o tableName \o <<"\"", ".">> \o returning
                   ELSE query,
         args |-> l.queryValues]

\* GetUpdateQuery(tableName, valuesMap, returning); it panics when the values
\* map has no value for the column named by returning
GetUpdateQuery(info, tableName, valuesMap, returning) ==
    LET fields == info.updateFieldsCache.names
        RECURSIVE Loop(_, _, _, _)
        Loop(i, counter, setClauses, queryValues) ==
            IF i > Len(fields)
            THEN [counter |-> counter, setClauses |-> setClauses, queryValues |-> queryValues]
            ELSE LET field == fields[i]
                 IN  IF field \in DOMAIN valuesMap
                     THEN LET value == valuesMap[field]
                          IN  IF value.kind = "jsonb"
                              THEN Loop(i + 1, counter + 1,
                                        Append(setClauses, field \o <<" ", "=", " ", "$">> \o Itoa(counter)
                                                           \o <<":", ":", "j", "s", "o", "n", "b">>),
                                        Append(queryValues, [value EXCEPT !.kind = "json"]))
                              ELSE Loop(i + 1, counter + 1,
                                        Append(setClauses, field \o <<" ", "=", " ", "$">> \o Itoa(counter)),
                                        Append(queryValues, value))
                     ELSE Loop(i + 1, counter, setClauses, queryValues)
        l == Loop(1, 1, <<>>, <<>>)
    IN  IF returning \notin DOMAIN valuesMap
        THEN [out |-> "panic", query |-> <<>>, args |-> <<>>]
        ELSE [out |-> "ok",
              query |-> <<"U", "P", "D", "A", "T", "E", " ", "\"">> \o tableName \o <<"\"", " ", "S", "E", "T", " ">> \o JoinTexts(l.setClauses, <<",", " ">>)
                        \o <<" ", "W", "H", "E", "R", "E", " ", "\"">> \o tableName \o <<"\"", ".", "\"">> \o returning \o <<"\"", " ", "=", " ", "$">>
                        \o Itoa(l.counter) \o <<" ", "R", "E", "T", "U", "R", "N", "I", "N", "G", " ", "\"">> \o tableName \o <<"\"", ".">>
                        \o returning,
              args |-> Append(l.queryValues, valuesMap[returning])]

\* the models of the statement builders: realm and website, UserProfile of
\* the tests, cut to three columns, and a model whose defaults are NULL and
\* a text that is no SQL keyword
QueryModels ==
    {RealmModel, WebsiteModel,
     <<Field(<<"U", "U", "I", "D">>, <<"u", "u", "i", "d">>, <<"i">>, ""),
       Field(<<"U", "s", "e", "r", "n", "a", "m", "e">>, <<"u", "s", "e", "r", "n", "a", "m", "e">>, <<"i", ",", "u">>, ""),
       Field(<<"B", "i", "o">>, <<"b", "i", "o">>, <<"i", ",", "u">>, "")>>,
     <<Field(<<"U", "U", "I", "D">>, <<"u", "u", "i", "d">>, <<"i">>, ""),
       Field(<<"N", "a", "m", "e">>, <<"n", "a", "m", "e">>, <<"i", ",", "u">>, "NULL"),
       Field(<<"S", "t", "a", "t", "u", "s">>, <<"s", "t", "a", "t", "u", "s">>, <<"i", ",", "u">>, "draft")>>}

\* a call of GetInsertQuery or of GetUpdateQuery is about to be made: the
\* values map names any of the columns of the model, and one that the model
\* does not have; at most one of its values is JSONB
QueryInit ==
    /\ TxIdle
    /\ ScanIdle
    /\ RegIdle
    /\ FqIdle
    /\ retry = NoRetry
    /\ batch = NoBatch
    /\ \E op \in {"GetInsertQuery", "GetUpdateQuery"}, m \in QueryModels,
          returning \in {<<>>, <<"u", "u", "i", "d">>} :
         \E S \in SUBSET ({m[i].db : i \in 1..Len(m)} \cup {<<"o", "t", "h", "e", "r">>}) :
           \E J \in {{}} \cup {{c} : c \in S \ {<<"u", "u", "i", "d">>}} :
             /\ op = "GetUpdateQuery" => returning # <<>>
             /\ qb = [NoBuild EXCEPT
                         !.op = op, !.model = m, !.table = <<"r", "e", "a", "l", "m">>,
                         !.returning = returning,
                         !.valuesMap = [c \in S |->
                                           [kind |-> IF c \in J THEN "jsonb" ELSE "plain",
                                            of |-> c]]]

\* query, args := GetInsertQuery(tableName, valuesMap, returning), the model
\* being registered for the table
GetInsertQueryCall ==
    /\ qb.op = "GetInsertQuery"
    /\ qb.out = "none"
    /\ LET r == GetInsertQuery(BuildModelInfo(qb.model, qb.table), qb.table,
                               qb.valuesMap, qb.returning)
       IN  qb' = [qb EXCEPT !.out = r.out, !.query = r.query, !.args = r.args]
    /\ UNCHANGED <<txVars, scanVars, regVars, fqVars, retry, batch>>

\* query, args := GetUpdateQuery(tableName, valuesMap, returning)
GetUpdateQueryCall ==
    /\ qb.op = "GetUpdateQuery"
    /\ qb.out = "none"
    /\ LET r == GetUpdateQuery(BuildModelInfo(qb.model, qb.table), qb.table,
                               qb.valuesMap, qb.returning)
       IN  qb' = [qb EXCEPT !.out = r.out, !.query = r.query, !.args = r.args]
    /\ UNCHANGED <<txVars, scanVars, regVars, fqVars, retry, batch>>

QuerySpec == QueryInit /\ [][GetInsertQueryCall \/ GetUpdateQueryCall]_vars

\* ================================================================ properties
\* every attempt logged so far failed with an error the classifier retries
AllRetryable(l) ==
    \A i \in 1..Len(l) : l[i].kind = "err" /\ isRetryableError(l[i].err)

\* the rows written through transaction h
RowsOf(h) == {<<h, r>> : r \in Rows}

\* C1: once Commit or Rollback has been called on a handle, every later
\* operation on it returns ErrTxDone and makes no call to the pgx transaction.
C1_ClosedHandleRejects ==
    last.done => (last.err = ErrTxDone /\ last.calls = 0)

\* C2: WithTx commits exactly when fn returns nil; when fn returns an error the
\* transaction is rolled back, no row fn wrote is visible, and the error
\* returned is not nil.
C2_WithTxCommitsIffNil ==
    (call = "WithTx" /\ pc = "returned") =>
        /\ (txs[1].status = "committed") <=> (log[1].kind = "nil")
        /\ log[1].kind = "nil" =>
               /\ result = Nil
               /\ {<<1, r>> : r \in txs[1].writes} \subseteq visible
        /\ log[1].kind = "err" =>
               /\ txs[1].status = "rolledback"
               /\ visible \cap RowsOf(1) = {}
               /\ result # Nil

C2_Witness ==
    /\ call = "WithTx"
    /\ pc = "returned"
    /\ log[1].kind = "err"
    /\ txs[1].writes # {}
    /\ txs[1].status = "rolledback"
    /\ visible = {}

\* C3: k retryable failures followed by a success, k < MaxRetries, give
\* success after exactly k+1 invocations of fn, with the last attempt alone
\* committed; the call does not give up while fewer than MaxRetries attempts
\* have failed with a retryable error.
C3_RetryThenSuccess ==
    (call = "WithTxRetry" /\ pc = "returned" /\ ~ctxDone /\ log # <<>>) =>
        LET n == Len(log)
        IN  /\ (AllRetryable(SubSeq(log, 1, n - 1)) /\ log[n].kind = "nil") =>
                   /\ n - 1 < maxRetries
                   /\ result = Nil
                   /\ bodyCalls = n
                   /\ Len(txs) = n
                   /\ \A i \in 1..n : (txs[i].status = "committed") <=> (i = n)
                   /\ \A i \in 1..(n - 1) : visible \cap RowsOf(i) = {}
            /\ AllRetryable(log) => n >= maxRetries

C3_Witness ==
    /\ call = "WithTxRetry"
    /\ pc = "returned"
    /\ maxRetries = 3
    /\ Len(log) = 3
    /\ AllRetryable(SubSeq(log, 1, 2))
    /\ log[3].kind = "nil"
    /\ result = Nil
    /\ bodyCalls = 3

\* C4, in every state: fn is never invoked more than MaxRetries times, and
\* when every attempt failed with a retryable error the call gives up at the
\* limit with an error that wraps ErrMaxRetriesExceeded and carries the text
\* of the last attempt's error.
C4_Limit ==
    call = "WithTxRetry" =>
        /\ bodyCalls <= maxRetries
        /\ (pc = "returned" /\ ~ctxDone /\ log # <<>> /\ AllRetryable(log)) =>
               /\ Len(log) = maxRetries
               /\ bodyCalls = maxRetries
               /\ "ErrMaxRetriesExceeded" \in result.is
               /\ Contains(result.msg, MaxRetriesText)
               /\ Contains(result.msg, log[Len(log)].err.msg)

C5_NonRetryableReturnsAtOnce ==
    (call = "WithTxRetry" /\ log # <<>> /\ log[Len(log)].kind = "err"
                          /\ ~isRetryableError(log[Len(log)].err)) =>
        LET n == Len(log)
        IN  /\ pc = "returned"
            /\ result = log[n].err
            /\ result \in BodyErrors
            /\ txs[n].status = "rolledback"
            /\ visible \cap RowsOf(n) = {}
            /\ bodyCalls = n
            /\ waits = n - 1
            /\ slept = n - 1

C5_Witness ==
    /\ call = "WithTxRetry"
    /\ pc = "returned"
    /\ Len(log) = 1
    /\ log[1].kind = "err"
    /\ ~isRetryableError(log[1].err)
    /\ result = log[1].err
    /\ bodyCalls = 1
    /\ waits = 0
    /\ maxRetries = 3

\* C6: when the retries are exhausted the call returns without waiting a
\* further backoff: a backoff is waited only when another attempt follows it.
C6_NoWaitAfterLastAttempt ==
    pc = "backoff" => LoopCondition(attempt + 1, maxRetries)

\* C7: a context cancelled during a retry backoff makes the call return the
\* context's error at once: the sleep is not completed and fn is not invoked
\* again.
C7_CancelDuringBackoff ==
    ctxDone =>
        /\ pc = "returned"
        /\ result = Canceled
        /\ bodyCalls = Len(log)
        /\ Len(txs) = Len(log)
        /\ waits = Len(log)
        /\ slept = waits - 1

C7_Witness ==
    /\ ctxDone
    /\ pc = "returned"
    /\ result = Canceled
    /\ Len(log) = 2
    /\ maxRetries = 3

\* C8: when fn panics the transaction is rolled back before the panic leaves
\* WithTxOptions: the transaction is never committed, nothing is returned
\* and fn is not invoked again.
C8_PanicRollsBack ==
    (log # <<>> /\ log[Len(log)].kind = "panic") =>
        /\ pc = "panicked"
        /\ txs[Len(log)].status = "rolledback"
        /\ visible \cap RowsOf(Len(log)) = {}
        /\ result = Nil
        /\ bodyCalls = Len(log)
        /\ Len(txs) = Len(log)

C8_Witness ==
    /\ pc = "panicked"
    /\ txs[hTx].writes # {}
    /\ txs[hTx].status = "rolledback"
    /\ call = "WithTxRetry"
    /\ Len(log) = 2

\* C9: an error is retryable exactly when its text contains one of the listed
\* markers, letter case apart: each of the twelve markers, 40001 and 40P01
\* included, makes a text that contains it retryable.
C9_MarkersClassify ==
    verdict # "none" =>
        ((verdict = "yes") <=>
            \E i \in 1..Len(retryableErrors) :
                Contains(ToLower(clsText), ToLower(retryableErrors[i])))

\* C10: the wait before the retry that follows failed attempt a is
\* 100ms * 2^a with a jitter of at most 20% either way, and is positive.
C10_BackoffRange ==
    pc = "backoff" =>
        /\ 10 * backoff >= 8 * 100 * Millisecond * (2 ^ attempt)
        /\ 10 * backoff <= 12 * 100 * Millisecond * (2 ^ attempt)
        /\ backoff > 0

C10_Witness ==
    /\ pc = "backoff"
    /\ attempt = 2
    /\ backoff < 400 * Millisecond

\* ---------------------------------------------------------------- result mapper
\* the single destination of call s holds row i of its result
Populated(s, i) ==
    IF s.kind = "prim"
    THEN heap[s.dest].prim = Value(s.q, i, s.cols[1])
    ELSE heap[s.dest].f = RowOf(s.type, s.q, i, s.cols)

\* the traversal a call may use: the one of its own type and columns
OwnTraversal(s) == [type |-> s.type, cols |-> s.cols]

\* C11: a cached column traversal is used for a scan only if it was built for
\* the same record type and the same list of column names as that scan.
C11_TraversalOfSameTypeAndColumns ==
    \A g \in Goroutines : scans[g].used \subseteq {OwnTraversal(scans[g])}

\* the same, for the scanner whose cache is keyed by type and columns
C11_HoldsWithReflectx ==
    variant = "reflectx" => C11_TraversalOfSameTypeAndColumns

\* C12: a scan writes only into the destination passed to that call (for a
\* slice, the elements it creates for it).
C12_WritesOnlyOwnDestination ==
    \A g \in Goroutines : scans[g].wrote \subseteq scans[g].own

\* the same, for the scanner that builds its scan destinations per call
C12_HoldsWithReflectx ==
    variant = "reflectx" => C12_WritesOnlyOwnDestination

\* C13: scanning a result of n rows into a slice appends exactly n elements,
\* the i-th holding the values of the i-th row.
C13_SliceHoldsEveryRow ==
    \A g \in Goroutines :
        LET s == scans[g]
        IN  (s.pc = "done" /\ s.kind \in {"slice", "primSlice"} /\ s.ret = Nil) =>
                /\ Len(s.slice) = s.nrows
                /\ \A i \in 1..Len(s.slice) :
                       s.slice[i] = IF s.kind = "primSlice"
                                    THEN Value(s.q, i, s.cols[1])
                                    ELSE RowOf(s.type, s.q, i, s.cols)

\* the same, for the scanner that builds its scan destinations per row
C13_HoldsWithReflectx ==
    variant = "reflectx" => C13_SliceHoldsEveryRow

\* C14: a scan into a single destination, struct or primitive, by ScanRows
\* (StructScan) or ScanSingle, returns sql.ErrNoRows for a result of no row,
\* an error for a result of more than one row, and populates the destination
\* and returns nil for a result of exactly one row.
C14_SingleDestinationTakesOneRow ==
    \A g \in Goroutines :
        LET s == scans[g]
        IN  (s.pc = "done" /\ s.kind \in {"struct", "prim"}) =>
                /\ s.nrows = 0 => s.ret = ErrNoRows
                /\ s.nrows > 1 => s.ret # Nil
                /\ s.nrows = 1 => (s.ret = Nil /\ Populated(s, 1))

\* C15: two goroutines that scan the same type and columns while the cache
\* holds nothing for them never use a missing or partially built entry, use
\* the same traversal, and each populates its own destination.
C15_ColdCacheRaceBenign ==
    \A g \in Goroutines :
        LET s == scans[g]
        IN  (s.cold /\ s.kind = "struct" /\ s.entry = "ScanRows") =>
                /\ s.used \subseteq {OwnTraversal(s)}
                /\ s.wrote \subseteq s.own
                /\ (s.pc = "done" /\ s.nrows = 1) => (s.ret = Nil /\ Populated(s, 1))

\* the same, for the scanner that stores a traversal once it is built
C15_HoldsWithReflectx ==
    variant = "reflectx" => C15_ColdCacheRaceBenign


\* ---------------------------------------------------------------- model registry
\* the metadata of a modelInfo that registration computes
Core(info) ==
    [dbTagMap |-> info.dbTagMap, dbInsertValueMap |-> info.dbInsertValueMap,
     dbFieldsSelect |-> info.dbFieldsSelect, dbFieldsInsert |-> info.dbFieldsInsert,
     dbFieldsUpdate |-> info.dbFieldsUpdate, linkedFields |-> info.linkedFields,
     quotedTableName |-> info.quotedTableName,
     insertFieldsCache |-> info.insertFieldsCache,
     updateFieldsCache |-> info.updateFieldsCache]

\* every registration of table t that began before t was published, and is
\* still being built, carries the metadata that the cache holds for t
NoOtherModelInFlight(t) ==
    \A g \in Goroutines :
        (regs[g].pc = "build" /\ regs[g].table = t /\ ~regs[g].found)
            => Core(BuildModelInfo(regs[g].model, t)) = Core(InfoOf(t))

\* goroutine g returns in this step from a registration of a known table
FastPathStep(g) ==
    /\ regs[g] # regs'[g]
    /\ regs'[g].pc = "done"
    /\ regs'[g].op = "InitModelTagCache"
    /\ regs'[g].found

\* C16: the metadata of a registered table (column map, select, insert and
\* update lists, default expressions, linked fields) stay as the first
\* registration published them whatever is called later, and a registration
\* of a table that is already registered changes nothing.  A registration
\* with other metadata that began before the table was published is not a
\* later one
C16_RegistrationPublishesOnce ==
    [][/\ \A t \in DOMAIN modelFieldsCache :
              NoOtherModelInFlight(t)
                  => /\ t \in DOMAIN modelFieldsCache'
                     /\ Core(InfoOf(t))' = Core(InfoOf(t))
       /\ \A g \in Goroutines :
              FastPathStep(g) => UNCHANGED <<modelFieldsCache, modelInfos>>]_vars

\* a table registered with one model was registered again with the other
\* one, and its metadata are still those of the first
C16_Witness ==
    \E g \in Goroutines :
        /\ regs[g].pc = "done"
        /\ regs[g].op = "InitModelTagCache"
        /\ regs[g].found
        /\ regs[g].table \in DOMAIN modelFieldsCache
        /\ Core(BuildModelInfo(regs[g].model, regs[g].table)) # Core(InfoOf(regs[g].table))

\* C17: a GetSelectFields call on a registered table, with whatever other
\* GetSelectFields calls running at the same time, returns the select
\* expressions and the field names of the table under the alias it asked for
C17_ConcurrentSelectFieldsAnswer ==
    \A g \in Goroutines :
        (regs[g].pc = "done" /\ regs[g].op = "GetSelectFields" /\ regs[g].found)
            => LET info == modelInfos[regs[g].info]
                   c == computeFieldsByModeInternal(info.dbFieldsSelect,
                                                    info.quotedTableName, regs[g].alias)
               IN  /\ regs[g].out = "returned"
                   /\ regs[g].fields = c.fields
                   /\ regs[g].names = c.names

\* the accessors and the query compiler
Lookups == {"GetSelectFields", "GetInsertFields", "GetUpdateFields",
            "GetInsertValues", "FilterQuery"}

\* C18: a lookup of a table that is not registered fails with "table name
\* not initialized: <table>", as a panic of the accessors and as an error of
\* the query compiler, and hands back no columns, no query and no arguments
C18_UnregisteredLookupFails ==
    \A g \in Goroutines :
        (regs[g].pc = "done" /\ regs[g].op \in Lookups /\ ~regs[g].found)
            => /\ regs[g].out = (IF regs[g].op = "FilterQuery" THEN "error" ELSE "panic")
               /\ regs[g].err = NotInitialized(regs[g].table)
               /\ regs[g].fields = <<>>
               /\ regs[g].names = <<>>

\* an accessor has panicked and the query compiler has returned the error
C18_Witness ==
    /\ regs["g1"].pc = "done" /\ regs["g1"].op = "GetInsertFields"
    /\ regs["g1"].out = "panic" /\ ~regs["g1"].found
    /\ regs["g2"].pc = "done" /\ regs["g2"].op = "FilterQuery"
    /\ regs["g2"].out = "error" /\ ~regs["g2"].found

\* the fields of the registered model whose mode tag has the flag s
SelectOnlyFields(g) ==
    {i \in 1..Len(regs[g].model) : <<"s">> \in modeParser(regs[g].model[i].dbMode)}

\* the registration of goroutine g has stored its modelInfo
Registered(g) ==
    /\ regs[g].pc = "done"
    /\ regs[g].op = "InitModelTagCache"
    /\ ~regs[g].found

InList(c, list) == \E k \in 1..Len(list) : list[k] = c

\* C19: a field whose mode tag has the flag s is, after registration, in the
\* select list and in neither the insert nor the update list, whatever other
\* flags it carries
C19_SelectOnlyIsSelected ==
    Registered("g1") =>
        \A i \in SelectOnlyFields("g1") :
            LET f == regs["g1"].model[i]
                info == InfoOf(regs["g1"].table)
            IN  /\ InList(f.db, info.dbFieldsSelect)
                /\ ~InList(f.db, info.dbFieldsInsert)
                /\ ~InList(f.db, info.dbFieldsUpdate)

\* what registration does with the flag s: the field is in none of the
\* select, insert and update lists, whatever other flags it carries, and it
\* is in the column map unless it is a linked field
SkipLeavesEveryList ==
    Registered("g1") =>
        \A i \in SelectOnlyFields("g1") :
            LET f == regs["g1"].model[i]
                info == InfoOf(regs["g1"].table)
            IN  /\ ~InList(f.db, info.dbFieldsSelect)
                /\ ~InList(f.db, info.dbFieldsInsert)
                /\ ~InList(f.db, info.dbFieldsUpdate)
                /\ (f.name \in DOMAIN info.dbTagMap) <=> (f.name \notin DOMAIN info.linkedFields)

\* a field tagged "i,u,s" was registered next to a field that is in all
\* three lists
SkipRegistered ==
    /\ Registered("g1")
    /\ \E i \in SelectOnlyFields("g1") :
           /\ regs["g1"].model[i].dbMode = <<"i", ",", "u", ",", "s">>
           /\ regs["g1"].model[i].name \in DOMAIN InfoOf(regs["g1"].table).dbTagMap
    /\ Len(InfoOf(regs["g1"].table).dbFieldsSelect) = 1
    /\ Len(InfoOf(regs["g1"].table).dbFieldsInsert) = 1


\* ---------------------------------------------------------------- query compiler
\* the value of a decimal digit, 10 for any other character
DigitOf(c) ==
    LET d == <<"0", "1", "2", "3", "4", "5", "6", "7", "8", "9">>
    IN  IF \E i \in 1..10 : d[i] = c THEN (CHOOSE i \in 1..10 : d[i] = c) - 1 ELSE 10

RECURSIVE NumberAt(_, _, _)
\* the number whose digits start at position i of text, after the value acc
NumberAt(text, i, acc) ==
    IF i > Len(text) \/ DigitOf(text[i]) = 10 THEN acc
    ELSE NumberAt(text, i + 1, 10 * acc + DigitOf(text[i]))

\* the placeholders of a text, in the order they are written; a $ without
\* digits reads as 0
Placeholders(text) ==
    LET at == SelectSeq([i \in 1..Len(text) |-> i], LAMBDA i : text[i] = "$")
    IN  [k \in 1..Len(at) |-> NumberAt(text, at[k] + 1, 0)]

\* the entries of the call that name a field of the model, in loop order
Resolved ==
    SelectSeq(fq.filters,
              LAMBDA e : LET i == IndexByte(e.key, "[")
                             name == IF i > 0 THEN SubSeq(e.key, 1, i - 1) ELSE e.key
                         IN  name \in DOMAIN InfoOf(fq.table).dbTagMap)

\* the argument an entry binds: its value, lower-cased when the operator
\* asks for it and the value is a string
Bound(e) ==
    IF Contains(e.key, <<"[", "€">>) /\ e.value.kind = "string"
    THEN [kind |-> "string", v |-> ToLower(e.value.v)]
    ELSE e.value

\* C20: a compiled query carries the placeholders $1..$n in this order, n
\* being the number of arguments and of resolved filter entries; the i-th
\* condition carries $i alone and the i-th argument is the value of the i-th
\* resolved entry, an array being one argument
C20_PlaceholdersContiguous ==
    fq.out = "ok" =>
        LET n == Len(fq.args)
        IN  /\ n = Len(Resolved)
            /\ Len(fq.conditions) = n
            /\ Placeholders(fq.query) = [i \in 1..n |-> i]
            /\ \A i \in 1..n :
                   /\ Placeholders(fq.conditions[i]) = <<i>>
                   /\ fq.args[i] = Bound(Resolved[i])
                   /\ Contains(fq.query, fq.conditions[i])

\* three entries were compiled, the second names no field of the model, and
\* an array and a lower-cased string are the two arguments
C20_Witness ==
    /\ fq.out = "ok"
    /\ Len(fq.filters) = 3
    /\ Len(fq.args) = 2
    /\ Len(Resolved) = 2
    /\ fq.args[1].kind = "array"
    /\ fq.args[2] = [kind |-> "string", v |-> <<"%", "a", "%">>]
    /\ Placeholders(fq.query) = <<1, 2>>


\* the name a filter key starts with
FieldOfKey(e) ==
    LET i == IndexByte(e.key, "[") IN IF i > 0 THEN SubSeq(e.key, 1, i - 1) ELSE e.key

\* the entries of the Filter and of the Sort that name a field of the model
KnownFilters ==
    SelectSeq(fq.filters, LAMBDA e : FieldOfKey(e) \in DOMAIN InfoOf(fq.table).dbTagMap)

KnownSort ==
    SelectSeq(fq.sort, LAMBDA e : e.field \in DOMAIN InfoOf(fq.table).dbTagMap)

\* the call gives what the same call gives without the entries that name no
\* field of the model
SameAsWithoutUnknown ==
    LET r == FilterQuery(fq.baseQuery, fq.t, KnownFilters,
                         KnownSort, fq.table, fq.perPage, fq.page,
                         modelFieldsCache, modelInfos)
    IN  /\ fq.out = r.out
        /\ fq.query = r.query
        /\ fq.args = r.args
        /\ fq.conditions = r.conditions
        /\ fq.err = r.err

\* a direction is ASC or DESC whatever its case
ValidOrder(order) == ToLower(order) \in {<<"a", "s", "c">>, <<"d", "e", "s", "c">>}

SortTerms ==
    [i \in 1..Len(KnownSort) |->
        <<"\"">> \o fq.t \o <<"\"", ".">> \o InfoOf(fq.table).dbTagMap[KnownSort[i].field] \o <<" ">>
        \o (IF ToLower(KnownSort[i].order) = <<"a", "s", "c">> THEN <<"A", "S", "C">> ELSE <<"D", "E", "S", "C">>)]

\* the text of an error about one of the bad directions of the sort
BadOrderTexts ==
    {<<"i", "n", "v", "a", "l", "i", "d", " ", "s", "o", "r", "t", " ", "o", "r", "d", "e", "r", ":", " ">> \o ToUpper(fq.sort[i].order) :
        i \in {j \in 1..Len(fq.sort) : ~ValidOrder(fq.sort[j].order)}}

\* C22: a call for a registered table that gets past its filter returns the
\* error "invalid sort order", and neither query nor arguments, when a
\* direction of its sort is not ASC or DESC in any case; when all are, it
\* returns a query whose ORDER BY terms carry the directions in upper case
C22_BadSortOrderIsAnError ==
    (fq.out \in {"ok", "error"} /\ fq.table \in DOMAIN modelFieldsCache) =>
        IF \E i \in 1..Len(fq.sort) : ~ValidOrder(fq.sort[i].order)
        THEN /\ fq.out = "error"
             /\ fq.err.msg \in BadOrderTexts
             /\ fq.query = <<>>
             /\ fq.args = <<>>
        ELSE /\ fq.out = "ok"
             /\ fq.err = Nil
             /\ IF SortTerms = <<>>
                THEN ~Contains(fq.query, <<" ", "O", "R", "D", "E", "R", " ", "B", "Y", " ">>)
                ELSE Contains(fq.query, <<" ", "O", "R", "D", "E", "R", " ", "B", "Y", " ">> \o JoinTexts(SortTerms, <<",", " ">>)
                                        \o <<" ", "L", "I", "M", "I", "T", " ">>)

\* a call with a filter on a field of the model and a sort whose second
\* direction is bad has returned the error
C22_Witness ==
    /\ fq.out = "error"
    /\ fq.table \in DOMAIN modelFieldsCache
    /\ Len(KnownFilters) >= 1
    /\ Len(fq.sort) = 2
    /\ ValidOrder(fq.sort[1].order)
    /\ fq.err.msg = <<"i", "n", "v", "a", "l", "i", "d", " ", "s", "o", "r", "t", " ", "o", "r", "d", "e", "r", ":", " ", "S", "I", "D", "E", "W", "A", "Y", "S">>


\* ---------------------------------------------------------------- count query
\* the text before the first occurrence of a clause in any case, the whole
\* text when there is none
CutAt(q, clause) ==
    LET at == {i \in 1..(Len(q) - Len(clause) + 1) :
                  ToLower(SubSeq(q, i, i + Len(clause) - 1)) = ToLower(clause)}
    IN  IF at = {} THEN q
        ELSE SubSeq(q, 1, (CHOOSE i \in at : \A j \in at : i <= j) - 1)

\* SELECT COUNT(*) FROM (r) AS count_subquery
CountOf(r) == <<"S", "E", "L", "E", "C", "T", " ", "C", "O", "U", "N", "T", "(", "*", ")", " ", "F", "R", "O", "M", " ", "(">> \o r \o <<")", " ", "A", "S", " ", "c", "o", "u", "n", "t", "_", "s", "u", "b", "q", "u", "e", "r", "y">>

\* C23: the count query of q is the wrapper around q cut at the first
\* " LIMIT ", then at the first " OFFSET ", then at the first " ORDER BY ",
\* in any case and each in the text already cut
C23_CountCutsInOrder ==
    fq.counted =>
        fq.count = CountOf(CutAt(CutAt(CutAt(fq.query, <<" ", "L", "I", "M", "I", "T", " ">>), <<" ", "O", "F", "F", "S", "E", "T", " ">>),
                                 <<" ", "O", "R", "D", "E", "R", " ", "B", "Y", " ">>))

\* the text starts with one of the three clauses
StartsWithClause(q) ==
    \E clause \in {<<" ", "L", "I", "M", "I", "T", " ">>, <<" ", "O", "F", "F", "S", "E", "T", " ">>, <<" ", "O", "R", "D", "E", "R", " ", "B", "Y", " ">>} :
        /\ Len(q) >= Len(clause)
        /\ ToLower(SubSeq(q, 1, Len(clause))) = ToLower(clause)

\* it is, for a query that starts with none of the three clauses
C23_HoldsAfterTheStart ==
    (/\ fq.counted
     /\ ~StartsWithClause(fq.query))
        => fq.count = CountOf(CutAt(CutAt(CutAt(fq.query, <<" ", "L", "I", "M", "I", "T", " ">>), <<" ", "O", "F", "F", "S", "E", "T", " ">>),
                                    <<" ", "O", "R", "D", "E", "R", " ", "B", "Y", " ">>))

\* the parentheses open at position i of a text
Depth(q, i) ==
    Len(SelectSeq(SubSeq(q, 1, i - 1), LAMBDA c : c = "("))
    - Len(SelectSeq(SubSeq(q, 1, i - 1), LAMBDA c : c = ")"))

\* every parenthesis of a text is closed, and none is closed before it opens
Balanced(q) ==
    /\ Depth(q, Len(q) + 1) = 0
    /\ \A i \in 1..Len(q) : Depth(q, i + 1) >= 0

\* the text before the first ORDER BY, LIMIT or OFFSET that is in no
\* subquery, the whole text when there is none
OuterPart(q) ==
    LET at == {i \in 1..Len(q) :
                  /\ Depth(q, i) = 0
                  /\ \E clause \in {<<" ", "L", "I", "M", "I", "T", " ">>, <<" ", "O", "F", "F", "S", "E", "T", " ">>, <<" ", "O", "R", "D", "E", "R", " ", "B", "Y", " ">>} :
                         /\ i + Len(clause) - 1 <= Len(q)
                         /\ ToLower(SubSeq(q, i, i + Len(clause) - 1)) = ToLower(clause)}
    IN  IF at = {} THEN q
        ELSE SubSeq(q, 1, (CHOOSE i \in at : \A j \in at : i <= j) - 1)

\* C24: the count query of a query with subqueries, whatever they hold, has
\* every parenthesis closed and wraps the query less its own trailing ORDER
\* BY, LIMIT and OFFSET
C24_CountKeepsSubqueries ==
    (/\ fq.counted
     /\ Balanced(fq.query)
     /\ Contains(fq.query, <<"(">>)
     /\ ~StartsWithClause(fq.query)) =>
        /\ Balanced(fq.count)
        /\ fq.count = CountOf(OuterPart(fq.query))

\* it does for a query whose subqueries hold no ORDER BY, LIMIT or OFFSET
C24_HoldsWithPlainSubqueries ==
    (/\ fq.counted
     /\ Balanced(fq.query)
     /\ ~StartsWithClause(fq.query)
     /\ OuterPart(fq.query) = CutAt(CutAt(CutAt(fq.query, <<" ", "L", "I", "M", "I", "T", " ">>), <<" ", "O", "F", "F", "S", "E", "T", " ">>),
                                    <<" ", "O", "R", "D", "E", "R", " ", "B", "Y", " ">>))
        => /\ Balanced(fq.count)
           /\ fq.count = CountOf(OuterPart(fq.query))


\* the query of a call without its order and its page: the base query and
\* the conditions of the filter
Unlimited ==
    fq.baseQuery
    \o (IF fq.conditions = <<>> THEN <<>>
        ELSE <<" ", "W", "H", "E", "R", "E", " ">> \o JoinTexts(fq.conditions, <<" ", "A", "N", "D", " ">>))

\* C25: the count query of a paginated query that FilterQuery compiled from
\* a base query with a WHERE clause counts the rows of the base query under
\* the conditions of the filter, whatever the order, perPage and page
C25_CountOfUnlimitedQuery ==
    (fq.counted /\ Contains(fq.baseQuery, <<" ", "W", "H", "E", "R", "E", " ">>)) => fq.count = CountOf(Unlimited)

\* it does when no subquery of the base query has a LIMIT of its own
C25_HoldsWithPlainSubqueries ==
    (/\ fq.counted
     /\ Contains(fq.baseQuery, <<" ", "W", "H", "E", "R", "E", " ">>)
     /\ ~Contains(fq.baseQuery, <<" ", "L", "I", "M", "I", "T", " ">>))
        => fq.count = CountOf(Unlimited)

\* ---------------------------------------------------------------- execute paths
\* C26: outside WithTxRetry and WithTxRetryOptions no call re-executes a
\* statement that failed: a call of ExecuteWithRetry hands its statement to
\* the backend at most once
C26_NoRetryOutsideTheTransactionManager ==
    Len(retry.log) <= 1

\* the same for WithTx: the body runs once, whatever it returns
C26_HoldsForWithTx ==
    call = "WithTx" => bodyCalls = 1 /\ Len(txs) = 1

\* ---------------------------------------------------------------- batch executor
\* the rows the batch executor was given that the database shows
Persisted == {v[2] : v \in visible}

\* C27: rows inserted through a batch executor inside a transaction are
\* written through that transaction only, whatever their number: the database
\* shows none of them before the commit, and none at all after a rollback
C27_BatchRowsOnlyThroughTheTransaction ==
    (call = "WithTx" /\ batch.made) =>
        /\ \A v \in visible : v[1] = hTx
        /\ txs[hTx].status # "committed" => Persisted = {}

\* the same for executors that stay below their batch size
C27_HoldsBelowTheBatchSize ==
    (call = "WithTx" /\ batch.made /\ Persisted # {}) =>
        \/ txs[hTx].status = "committed" /\ \A v \in visible : v[1] = hTx
        \/ Cardinality(Persisted) >= batch.batchSize

\* ---------------------------------------------------------------- WithTxOptions
\* the transactions that have not ended
Open(T) == {i \in 1..Len(T) : T[i].status = "active"}

\* C28: a transaction begun by WithTxOptions ends once, by Commit when the
\* body returned nil and by Rollback when it returned an error or panicked,
\* before WithTxOptions returns or panics again; an ended transaction stays
\* as it ended, and an attempt of WithTxRetryOptions begins its transaction
\* when no earlier one is open
C28_TransactionsEndOnce ==
    [][call' \in {"WithTx", "WithTxRetry"} =>
          /\ \A i \in 1..Len(txs) : txs[i].status # "active" => txs'[i] = txs[i]
          /\ Len(txs') > Len(txs) =>
                 /\ Open(txs) = {}
                 /\ Len(txs') = Len(txs) + 1
                 /\ Open(txs') = {Len(txs')}
          /\ (pc = "body" /\ pc' # "body") =>
                 /\ Open(txs) = {hTx}
                 /\ txs'[hTx].status = IF log'[Len(log')].kind = "nil"
                                        THEN "committed" ELSE "rolledback"
          /\ pc' \in {"returned", "panicked", "backoff"} => Open(txs') = {}
      ]_vars

\* a retrying call returned after three attempts: the first two were rolled
\* back after the error of their body, the third was committed
C28_Witness ==
    /\ call = "WithTxRetry"
    /\ pc = "returned"
    /\ Len(txs) = 3
    /\ txs[1].status = "rolledback"
    /\ txs[2].status = "rolledback"
    /\ txs[3].status = "committed"
    /\ txs[3].writes # {}
    /\ result = Nil

\* ---------------------------------------------------------------- object statements
\* the text of a statement after its first " WHERE "
AfterWhere(q) ==
    LET w == <<" ", "W", "H", "E", "R", "E", " ">>
        at == {p \in 1..(Len(q) - Len(w) + 1) : SubSeq(q, p, p + Len(w) - 1) = w}
        p == CHOOSE p \in at : \A o \in at : p <= o
    IN  IF at = {} THEN <<>> ELSE SubSeq(q, p + Len(w), Len(q))

\* the text with every digit taken out
NoDigits(text) == SelectSeq(text, LAMBDA c : DigitOf(c) = 10)

\* C29: with k update columns, each placeholder $i of the where clause is
\* $(k+i) in the statement, the rest of the clause is as the caller wrote it,
\* and argument k+i is whereArgs[i]
C29_WherePlaceholdersRenumbered ==
    (qb.op = "UpdateObjectWithTx" /\ qb.out = "ok") =>
        LET n == Len(qb.whereArgs)
            k == Len(qb.args) - n
            given == Placeholders(qb.whereClause)
            made == Placeholders(AfterWhere(qb.query))
        IN  /\ Len(made) = Len(given)
            /\ \A j \in 1..Len(given) : made[j] = k + given[j]
            /\ NoDigits(AfterWhere(qb.query)) = NoDigits(qb.whereClause)
            /\ \A i \in 1..n : qb.args[k + i] = qb.whereArgs[i]

\* the same for the calls in which no new number is the number of a later
\* placeholder and no placeholder is written twice
C29_HoldsWithoutCollision ==
    (qb.op = "UpdateObjectWithTx" /\ qb.out = "ok") =>
        LET n == Len(qb.whereArgs)
            k == Len(qb.args) - n
            given == Placeholders(qb.whereClause)
            made == Placeholders(AfterWhere(qb.query))
        IN  (/\ k >= n
             /\ \A i, j \in 1..Len(given) : given[i] = given[j] => i = j) =>
                /\ Len(made) = Len(given)
                /\ \A j \in 1..Len(given) : made[j] = k + given[j]
                /\ NoDigits(AfterWhere(qb.query)) = NoDigits(qb.whereClause)
                /\ \A i \in 1..n : qb.args[k + i] = qb.whereArgs[i]

\* ---------------------------------------------------------------- statement builders
\* the first position of sub in text, 0 when there is none
IndexOf(text, sub) ==
    LET at == {p \in 1..(Len(text) - Len(sub) + 1) : SubSeq(text, p, p + Len(sub) - 1) = sub}
    IN  IF at = {} THEN 0 ELSE CHOOSE p \in at : \A o \in at : p <= o

RECURSIVE Split(_, _)
\* the pieces of text between the occurrences of sep
Split(text, sep) ==
    IF text = <<>> THEN <<>>
    ELSE LET p == IndexOf(text, sep)
         IN  IF p = 0 THEN <<text>>
             ELSE <<SubSeq(text, 1, p - 1)>>
                  \o Split(SubSeq(text, p + Len(sep), Len(text)), sep)

\* the columns an INSERT statement lists
InsertColumns(q) ==
    Split(SubSeq(q, IndexOf(q, <<"\"", " ", "(">>) + 3, IndexOf(q, <<")", " ", "V", "A", "L", "U", "E", "S", " ", "(">>) - 1), <<",">>)

\* the value expressions of an INSERT statement
InsertExprs(q) ==
    LET rest == SubSeq(q, IndexOf(q, <<")", " ", "V", "A", "L", "U", "E", "S", " ", "(">>) + 10, Len(q))
        r == IndexOf(rest, <<" ", "R", "E", "T", "U", "R", "N", "I", "N", "G", " ">>)
    IN  Split(IF r = 0 THEN SubSeq(rest, 1, Len(rest) - 1) ELSE SubSeq(rest, 1, r - 2),
              <<",">>)

\* the assignments of an UPDATE statement
UpdateSets(q) ==
    Split(SubSeq(q, IndexOf(q, <<" ", "S", "E", "T", " ">>) + 5, IndexOf(q, <<" ", "W", "H", "E", "R", "E", " ">>) - 1), <<",", " ">>)

\* what is bound for a value of the values map: a JSONB value goes as its JSON
BoundValue(v) == IF v.kind = "jsonb" THEN [v EXCEPT !.kind = "json"] ELSE v

\* the INSERT statement of the call has one value expression for each column
\* it lists, its placeholders are $1..$n, and the placeholder at the place of
\* a column is bound to the value of the map for it, or else to its default
InsertInOrder ==
    LET cols == InsertColumns(qb.query)
        exprs == InsertExprs(qb.query)
        n == Len(qb.args)
    IN  /\ Len(exprs) = Len(cols)
        /\ Placeholders(qb.query) = [i \in 1..n |-> i]
        /\ \A i \in 1..Len(cols) :
               (i <= Len(exprs) /\ exprs[i][1] = "$") =>
                   LET j == NumberAt(exprs[i], 2, 0)
                   IN  /\ j \in 1..n
                       /\ IF cols[i] \in DOMAIN qb.valuesMap
                          THEN qb.args[j] = BoundValue(qb.valuesMap[cols[i]])
                          ELSE \E f \in 1..Len(qb.model) :
                                   /\ qb.model[f].db = cols[i]
                                   /\ qb.args[j] = [kind |-> "default",
                                                    of |-> qb.model[f].dbInsertValue]

\* the UPDATE statement of the call has one placeholder for each column it
\* sets, bound to the value of the map for it; its placeholders are $1..$n
\* and the last one, in the WHERE clause, is bound to the key
UpdateInOrder ==
    LET sets == UpdateSets(qb.query)
        n == Len(qb.args)
    IN  /\ Placeholders(qb.query) = [i \in 1..n |-> i]
        /\ n = Len(sets) + 1
        /\ \A i \in 1..Len(sets) :
               LET e == IndexOf(sets[i], <<" ", "=", " ", "$">>)
                   col == SubSeq(sets[i], 1, e - 1)
                   j == NumberAt(sets[i], e + 4, 0)
               IN  /\ e > 0
                   /\ Len(Placeholders(sets[i])) = 1
                   /\ j \in 1..n
                   /\ col \in DOMAIN qb.valuesMap
                   /\ qb.args[j] = BoundValue(qb.valuesMap[col])
        /\ Placeholders(AfterWhere(qb.query)) = <<n>>
        /\ Contains(qb.query, <<".", "\"">> \o qb.returning \o <<"\"", " ", "=", " ", "$">> \o Itoa(n))
        /\ qb.args[n] = qb.valuesMap[qb.returning]

\* C30: for every values map GetInsertQuery and GetUpdateQuery give a
\* statement with one value expression for each column it lists, with the
\* placeholders $1..$n for its n arguments, each bound to the value supplied
\* for its column, the last one of an update being the WHERE key
C30_ValuesInOrder ==
    /\ (qb.op = "GetInsertQuery" /\ qb.out = "ok") => InsertInOrder
    /\ (qb.op = "GetUpdateQuery" /\ qb.out = "ok") => UpdateInOrder

\* the same for GetUpdateQuery alone
C30_HoldsForUpdate ==
    (qb.op = "GetUpdateQuery" /\ qb.out = "ok") => UpdateInOrder

\* the same for the values maps that leave out no insert column without a
\* default
C30_HoldsForCompleteMaps ==
    (/\ qb.op = "GetInsertQuery" /\ qb.out = "ok"
     /\ \A c \in {BuildModelInfo(qb.model, qb.table).dbFieldsInsert[i] :
                      i \in 1..Len(BuildModelInfo(qb.model, qb.table).dbFieldsInsert)} :
            \/ c \in DOMAIN qb.valuesMap
            \/ \E f \in 1..Len(qb.model) :
                   qb.model[f].db = c /\ qb.model[f].dbInsertValue # "") => InsertInOrder

====
